---- MODULE Spec2Model ----
(***************************************************************************)
(* Model of the nekkus-vpn control plane: the VPN engine state machine     *)
(* (internal/vpn/engine.go), the store of subscriptions and settings with  *)
(* its two JSON files (internal/store/store.go), the subscription parser   *)
(* (internal/subscription) and the operating-system resources the engine   *)
(* owns (engine child processes, runtime config files, the system proxy).  *)
(***************************************************************************)
EXTENDS Integers, Sequences, FiniteSets, TLC

\* ------------------------------------------------------------------ bounds
MaxChildren == 2      \* children the engine may spawn in one behaviour
MaxConfigs == 2       \* runtime config files it may create in one behaviour
MaxPolls == 2         \* iterations of the readiness loop before the deadline

Threads == {1, 2}     \* request handlers that may call into the engine

\* ------------------------------------------------------------ data values
\* A server URI, reduced to the parts the config generator inspects.
NoURI == [scheme |-> "", user |-> "", host |-> ""]

ServerA == [id |-> "A-h1", name |-> "A", uri |-> [scheme |-> "vless", user |-> "uuid", host |-> "h1"]]
ServerB == [id |-> "B-h2", name |-> "B", uri |-> [scheme |-> "trojan", user |-> "pw", host |-> "h2"]]
ServerY == [id |-> "Y", name |-> "Y", uri |-> NoURI]
ServerX == [id |-> "X-h3", name |-> "X", uri |-> [scheme |-> "http", user |-> "", host |-> "h3"]]

NoNode == [id |-> "", name |-> "", uri |-> NoURI]

\* The store contents an engine may be constructed over.
StoreChoices ==
    { <<>>,
      << [id |-> "sub-1", servers |-> <<ServerA, ServerY>>],
         [id |-> "sub-2", servers |-> <<ServerB, ServerX>>] >> }

\* Arguments a caller may pass to Connect: ids, a name, an unknown id.
ServerQueries == {"A-h1", "B-h2", "Y", "X-h3", "B", "zz"}

StderrTexts == {"", "port already in use"}

NilProc == -1         \* e.process == nil
UnstartedCmd == 0     \* e.process != nil but e.process.Process == nil

\* Store.Settings; "" is the zero value of a field.
SettingsFields == {"sing_box_path", "default_config_id", "default_server"}
NoSettings == [f \in SettingsFields |-> ""]
\* The values a settings field takes here: unset, or one of two texts.
FieldTexts == {"", "v1", "v2"}
SettingsValues == [SettingsFields -> FieldTexts]

\* The URLs subscriptions are added with.
URLs == {"u1", "u2"}
\* time.Now().Unix() as AddSubscription reads it: every call of a behaviour
\* falls within the same second, so ids differ by the list length alone.
Clock == {1}

VARIABLES
    subscriptions,    \* Store.subscriptions
    settings,         \* Store.settings
    settingsFile,     \* settings.json, as loadSettings decodes it
    subsFile,         \* subscriptions.json, as loadSubscriptions decodes it
    remote,           \* what each subscription URL answers to a GET
    sloc,             \* per handler: locals of the store operation it runs
    body,             \* a subscription body handed to the parser
    parsed,           \* what the parser returned for it
    uri,              \* a server URI handed to the outbound builder
    outbound,         \* what the outbound builder returned for it
    release,          \* the latest release as the GitHub API lists it
    selected,         \* what selectAsset returned for it
    archive,          \* the entries of the downloaded zip archive
    extractDir,       \* paths created under the temporary extraction root
    installDir,       \* files in <dataDir>/tools/sing-box
    installStatus,        \* what InstallLatest returned
    lastTraffic,      \* traffic.go's lastRecv, lastSent, lastTrafficAt
    stats,            \* what the last GetTrafficStats returned
    disk,             \* whether writes to the data directory can fail
    logMax,           \* logBuffer.max
    logData,          \* logBuffer.data
    logAdded,         \* history: every line handed to Add, in lock order
    logSnap,          \* the slice the last Snapshot call returned, and when
    sup,              \* proxyEngine: cmd, running, lastError
    supProcs,         \* the children proxyEngine.Start spawned
    status,           \* Engine.status
    currentNode,      \* Engine.currentNode
    process,          \* Engine.process: NilProc, UnstartedCmd or a child pid
    lastConfigPath,   \* Engine.lastConfigPath: 0 for "" or a file number
    files,            \* runtime config files that exist on disk
    nConfigs,         \* config files created so far (names are unique)
    children,         \* children spawned so far: pid -> [state, stderr]
    sysProxy,         \* the host's ProxyEnable setting
    pc,               \* per handler: position in the call it is running
    op,               \* per handler: the operation it runs or last ran
    arg,              \* per handler: Connect's serverID
    server,           \* per handler: Connect's local `server`
    cfgPath,          \* per handler: Connect's local `cfgPath` (0 before it is set)
    cfg,              \* per handler: Connect's local `cfg`, as the URI it was generated from
    polls,            \* per handler: readiness-loop iterations completed
    spawned,          \* per handler: the child this Connect started (0: none)
    waitChild,        \* per handler: the child its Wait goroutine observes
    result,           \* per handler: the value the call returned
    events,           \* per handler: side effects of the current call, in order
    entry             \* per handler: engine state when the current call began

storeVars == <<subscriptions, settings, settingsFile, subsFile, remote, sloc, body, parsed>>
engineVars == <<status, currentNode, process, lastConfigPath>>
osVars == <<files, nConfigs, children, sysProxy>>
sideVars == <<logMax, logData, logAdded, logSnap, sup, supProcs>>
auxVars == <<uri, outbound, release, selected, archive, extractDir, installDir, installStatus,
             lastTraffic, stats, disk, sideVars>>
callVars == <<pc, op, arg, server, cfgPath, cfg, polls, spawned, waitChild, result, events, entry>>
vars == <<subscriptions, settings, settingsFile, subsFile, remote, sloc, body, parsed,
          uri, outbound, release, selected, archive, extractDir, installDir, installStatus,
          lastTraffic, stats, disk,
          logMax, logData, logAdded, logSnap, sup, supProcs,
          status, currentNode, process, lastConfigPath,
          files, nConfigs, children, sysProxy,
          pc, op, arg, server, cfgPath, cfg, polls, spawned, waitChild, result, events, entry>>

\* ------------------------------------------------------------------ store
RECURSIVE FlattenServers(_)
\* The servers of all subscriptions, in subscription order then list order.
FlattenServers(subs) ==
    IF subs = <<>> THEN <<>>
    ELSE Head(subs).servers \o FlattenServers(Tail(subs))

RECURSIVE FirstMatch(_, _)
\* Store.GetServer's scan: the first server whose ID or Name equals the query.
FirstMatch(nodes, q) ==
    IF nodes = <<>> THEN NoNode
    ELSE IF Head(nodes).id = q \/ Head(nodes).name = q THEN Head(nodes)
    ELSE FirstMatch(Tail(nodes), q)

\* Store.GetServer: the flat list s.servers is never filled, so the scan over
\* the subscriptions decides; NoNode stands for the "server not found" error.
GetServer(subs, q) == FirstMatch(FlattenServers(subs), q)

RECURSIVE DedupByID(_, _)
DedupByID(nodes, seen) ==
    IF nodes = <<>> THEN <<>>
    ELSE IF Head(nodes).id # "" /\ Head(nodes).id \notin seen
         THEN <<Head(nodes)>> \o DedupByID(Tail(nodes), seen \cup {Head(nodes).id})
         ELSE DedupByID(Tail(nodes), seen)

\* Store.GetServers: all servers with a non-empty id, first occurrence kept.
GetServers(subs) == DedupByID(FlattenServers(subs), {})

\* ------------------------------------------------------ subscription body
\* Text is a sequence of atoms, so that concatenation, case folding and
\* trimming are computed and not assumed.
MaxLines == 2         \* lines of a subscription body

Lower(a) == IF a = "A" THEN "a" ELSE a
ToLower(str) == [i \in 1..Len(str) |-> Lower(str[i])]

\* A byte that is not valid UTF-8, and its percent-encoding.
BadByte == "\\xFF"
EscapedBadByte == "%FF"

\* url.QueryUnescape on the atoms used here: "+" becomes a space and a
\* percent-encoded byte becomes the byte.
QueryUnescape(str) ==
    [i \in 1..Len(str) |-> IF str[i] = "+" THEN " "
                           ELSE IF str[i] = EscapedBadByte THEN BadByte
                           ELSE str[i]]

RECURSIVE TrimLeft(_)
TrimLeft(str) ==
    IF str # <<>> /\ Head(str) = " " THEN TrimLeft(Tail(str)) ELSE str

RECURSIVE TrimRight(_)
TrimRight(str) ==
    IF str # <<>> /\ str[Len(str)] = " " THEN TrimRight(SubSeq(str, 1, Len(str) - 1)) ELSE str

TrimSpace(str) == TrimRight(TrimLeft(str))

\* strconv.Itoa for the line numbers that occur.
Itoa(n) == <<CASE n = 1 -> "1" [] n = 2 -> "2" [] n = 3 -> "3" [] OTHER -> "4">>

\* Fragments, hosts and ports of the URI lines considered.
Fragments == { <<>>, <<"A">>, <<"a">>, <<"A", "-", "b">>, <<"+">>, <<"server", "-", "2">> }
Hosts == { <<>>, <<"c">>, <<"b", "-", "c">> }
Ports == { <<>>, <<"443">> }

\* A line holding "://": scheme://[user@]host[:port][#fragment].
URILines == [kind : {"uri"}, frag : Fragments, host : Hosts, port : Ports]
\* A line without "://": an entry of a YAML proxies list (it holds ": ", so
\* it is not base64), or a word over the base64 alphabet.
OtherLines == {[kind |-> "proxy", frag |-> <<"A">>, host |-> <<>>, port |-> <<>>],
               [kind |-> "proxy", frag |-> <<"a">>, host |-> <<>>, port |-> <<>>],
               [kind |-> "word", frag |-> <<>>, host |-> <<>>, port |-> <<>>]}
Lines == URILines \cup OtherLines

SeqsUpTo(S, n) == UNION {[1..k -> S] : k \in 0..n}

\* A body is its lines, sent as they are or wrapped in base64.
Bodies == [enc : {"plain", "base64"}, lines : SeqsUpTo(Lines, MaxLines)]
EmptyBody == [enc |-> "plain", lines |-> <<>>]
\* What a URL answers when the GET fails (subscription.Fetch returns an error).
FetchError == [enc |-> "error", lines |-> <<>>]

\* A []ServerNode result: Go tells a nil slice from an empty one, and JSON
\* writes the first as null and the second as [].
NilServers == [nil |-> TRUE, servers |-> <<>>]
Servers(list) == [nil |-> FALSE, servers |-> list]

\* ----------------------------------------------------- subscription parser
\* url.Parse(raw).Host: "host", "host:port" or "".
HostPort(line) ==
    IF line.port = <<>> THEN line.host ELSE line.host \o <<":">> \o line.port

\* extractNameFromURI: the unescaped fragment when there is one, else the
\* authority of the URI.
extractNameFromURI(line) ==
    IF line.frag # <<>> THEN QueryUnescape(line.frag) ELSE HostPort(line)

\* extractHostFromURI: the authority up to its first ":", or all of it when
\* that part is empty.
extractHostFromURI(line) ==
    IF HostPort(line) = <<>> THEN <<>>
    ELSE IF line.host # <<>> THEN line.host
    ELSE HostPort(line)

\* extractURIList: the lines that hold "://", in order.
extractURIList(lines) == SelectSeq(lines, LAMBDA l : l.kind = "uri")

\* The name urisToServerNodes gives to the i-th URI.
NodeName(uris, i) ==
    LET name == TrimSpace(extractNameFromURI(uris[i])) IN
    IF name = <<>> THEN <<"server", "-">> \o Itoa(i) ELSE name

\* The ID urisToServerNodes gives to a node.
NodeID(name, addr) == IF addr # <<>> THEN name \o <<"-">> \o addr ELSE name

\* A key that tells names apart by case.
NameKey_CaseSensitive(name) == name
\* key := strings.ToLower(name)
NameKey(name) == ToLower(name)

RECURSIVE NodesFrom(_, _, _)
\* The loop of urisToServerNodes from index i on, with the lowercase names
\* seen so far.
NodesFrom(uris, i, seen) ==
    IF i > Len(uris) THEN <<>>
    ELSE LET name == NodeName(uris, i)
             key == NameKey(name)
             addr == extractHostFromURI(uris[i])
         IN IF key \in seen THEN NodesFrom(uris, i + 1, seen)
            ELSE <<[id |-> NodeID(name, addr), name |-> name,
                    address |-> addr, uri |-> uris[i]]>>
                 \o NodesFrom(uris, i + 1, seen \cup {key})

\* urisToServerNodes returns a non-nil slice, empty when there are no URIs.
urisToServerNodes(uris) == Servers(NodesFrom(uris, 1, {}))

\* tryDecodeBase64: a base64 body decodes to its lines; words over the
\* base64 alphabet decode to bytes that hold no line; anything else fails.
tryDecodeBase64(b) ==
    IF b.enc = "base64" THEN [ok |-> TRUE, lines |-> b.lines]
    ELSE IF \A i \in 1..Len(b.lines) : b.lines[i].kind = "word"
         THEN [ok |-> TRUE, lines |-> <<>>]
    ELSE [ok |-> FALSE, lines |-> <<>>]

\* ParseContent: the URI lines of the body as it is; when there are none,
\* those of its base64 decoding; nil when the body is empty or does not
\* decode. There is no third step.
ParseContent(b) ==
    IF b.lines = <<>> THEN NilServers
    ELSE LET uris == IF b.enc = "plain" THEN extractURIList(b.lines) ELSE <<>> IN
         IF uris # <<>> THEN urisToServerNodes(uris)
         ELSE LET decoded == tryDecodeBase64(b) IN
              IF ~decoded.ok THEN NilServers
              ELSE urisToServerNodes(extractURIList(decoded.lines))

\* ----------------------------------------------------- config generation
SupportedSchemes == {"vless", "vmess", "trojan", "ss"}

\* outboundFromURI succeeds for a supported scheme with a host and the
\* scheme's credential; everything else is an error.
outboundFromURI(u) ==
    /\ u # NoURI
    /\ u.scheme \in SupportedSchemes
    /\ u.host # ""
    /\ u.user # ""

\* generateSingboxConfig fails exactly when outboundFromURI fails.
generateSingboxConfig(node) == outboundFromURI(node.uri)

\* ------------------------------------------------------- outbound builder
\* A JSON object under construction: a function from field names to values.
EmptyMap == [k \in {} |-> ""]
\* `if v != "" { m[k] = v }`
Field(k, v) == IF v = "" THEN EmptyMap ELSE k :> v

\* strings.ToLower on the words used here.
lowerWord(w) ==
    CASE w = "TLS" -> "tls"
      [] w = "WS" -> "ws"
      [] OTHER -> w

\* The userinfo of a URI.  present: the URI has an "@"; b64: the text before
\* the "@" is the base64 form of name[:pass]; colon: that text (decoded, for
\* the base64 form) holds a ":" between name and pass.
NoUser == [present |-> FALSE, b64 |-> FALSE, colon |-> FALSE, name |-> "", pass |-> ""]
PlainUser(name, colon, pass) ==
    [present |-> TRUE, b64 |-> FALSE, colon |-> colon, name |-> name, pass |-> pass]
Base64User(name, colon, pass) ==
    [present |-> TRUE, b64 |-> TRUE, colon |-> colon, name |-> name, pass |-> pass]

\* The text of the userinfo as url.Parse keeps it.
UserText(user) ==
    IF ~user.present THEN ""
    ELSE IF user.b64 THEN "base64"
    ELSE IF user.colon THEN "name:pass"
    ELSE user.name
\* u.User.Username(): the userinfo up to its first ":".
Username(user) ==
    IF ~user.present THEN ""
    ELSE IF user.b64 THEN "base64"
    ELSE user.name

\* The query parameters the builder reads.
NoQuery == [security |-> "", type |-> "", flow |-> "", sni |-> "", host |-> "", alpn |-> "",
            pbk |-> "", sid |-> "", fp |-> "", path |-> "", serviceName |-> ""]

\* What follows the host in the authority.
PortTexts == {"", ":", ":443", ":0", ":x", ":70000"}
\* The port text: what follows the ":".
AfterColon(port) ==
    CASE port = ":443" -> "443"
      [] port = ":0" -> "0"
      [] port = ":x" -> "x"
      [] port = ":70000" -> "70000"
      [] OTHER -> ""
\* strconv.Atoi on the port texts used here (-1: not a number).
Atoi(text) ==
    CASE text = "443" -> 443
      [] text = "0" -> 0
      [] text = "70000" -> 70000
      [] OTHER -> -1

Failure(msg) == [err |-> msg, out |-> EmptyMap]
Built(m) == [err |-> "", out |-> m]
NoOutbound == Failure("not built")

\* splitHostPort(u.Host): net.SplitHostPort fails on an authority without
\* ":", which is accepted as a bare host unless it is empty; the port text
\* goes through Atoi.
splitHostPort(host, port) ==
    IF port = "" THEN
        IF host # "" THEN [err |-> "", host |-> host, port |-> 0]
        ELSE [err |-> "missing port in address", host |-> "", port |-> 0]
    ELSE LET p == Atoi(AfterColon(port)) IN
         IF p < 0 THEN [err |-> "invalid syntax", host |-> "", port |-> 0]
         ELSE [err |-> "", host |-> host, port |-> p]

\* v2rayTransport(kind, q): nil for "" and "tcp", a ws or grpc transport,
\* and an error for any other kind.
v2rayTransport(kind, q) ==
    CASE kind \in {"", "tcp"} -> [err |-> "", transport |-> EmptyMap]
      [] kind \in {"ws", "websocket"} ->
            [err |-> "",
             transport |-> ("type" :> "ws") @@ Field("path", q.path)
                           @@ (IF q.host = "" THEN EmptyMap
                               ELSE "headers" :> [Host |-> q.host])]
      [] kind = "grpc" ->
            [err |-> "",
             transport |-> ("type" :> "grpc") @@ Field("service_name", q.serviceName)]
      [] OTHER -> [err |-> "unsupported transport", transport |-> EmptyMap]

\* `if transport != nil { out["transport"] = transport }`
WithTransport(out, tr) ==
    IF tr.err # "" THEN Failure(tr.err)
    ELSE IF tr.transport = EmptyMap THEN Built(out)
    ELSE Built(out @@ ("transport" :> tr.transport))

\* vlessTLS without the uTLS fingerprint block.
vlessTLS_NoUTLS(q, security, sni) ==
    [enabled |-> TRUE]
    @@ Field("server_name", sni)
    @@ (IF security = "reality" /\ q.pbk # "" /\ q.sid # ""
        THEN "reality" :> [enabled |-> TRUE, public_key |-> q.pbk, short_id |-> q.sid]
        ELSE EmptyMap)

\* The tls block of a vless outbound whose security is tls or reality.
vlessTLS(q, security, sni) ==
    [enabled |-> TRUE]
    @@ Field("server_name", sni)
    @@ (IF q.alpn = "" THEN EmptyMap ELSE "alpn" :> <<q.alpn>>)
    @@ (IF security = "reality" /\ q.pbk # "" /\ q.sid # ""
        THEN ("reality" :> [enabled |-> TRUE, public_key |-> q.pbk, short_id |-> q.sid])
             @@ ("utls" :> [enabled |-> TRUE,
                            fingerprint |-> IF q.fp = "" THEN "chrome" ELSE q.fp])
        ELSE EmptyMap)

vlessOutbound(u) ==
    LET hp == splitHostPort(u.host, u.port)
        port == IF hp.port = 0 THEN 443 ELSE hp.port
        uuid == Username(u.user)
        q == u.query
        security == lowerWord(q.security)
        transportType == lowerWord(q.type)
        sni == IF q.sni # "" THEN q.sni
               ELSE IF q.host # "" THEN q.host
               ELSE hp.host
        out == [type |-> "vless", server |-> hp.host, server_port |-> port, uuid |-> uuid]
               @@ Field("flow", q.flow)
               @@ (IF security \in {"tls", "reality"}
                   THEN "tls" :> vlessTLS(q, security, sni)
                   ELSE EmptyMap)
    IN IF hp.err # "" THEN Failure(hp.err)
       ELSE IF uuid = "" THEN Failure("vless: missing uuid")
       ELSE WithTransport(out, v2rayTransport(transportType, q))

trojanOutbound(u) ==
    LET hp == splitHostPort(u.host, u.port)
        port == IF hp.port = 0 THEN 443 ELSE hp.port
        password == Username(u.user)
        q == u.query
        transportType == lowerWord(q.type)
        tls == [enabled |-> TRUE]
               @@ Field("server_name", IF q.sni # "" THEN q.sni ELSE hp.host)
               @@ (IF q.alpn = "" THEN EmptyMap ELSE "alpn" :> <<q.alpn>>)
        out == [type |-> "trojan", server |-> hp.host, server_port |-> port,
                password |-> password, tls |-> tls]
    IN IF hp.err # "" THEN Failure(hp.err)
       ELSE IF password = "" THEN Failure("trojan: missing password")
       ELSE WithTransport(out, v2rayTransport(transportType, q))

\* decodeBase64Compat on a userinfo text: only the base64 form decodes (the
\* empty text decodes to nothing).
decodeBase64Compat(user) ==
    IF user.b64 THEN [ok |-> TRUE, colon |-> user.colon, name |-> user.name, pass |-> user.pass]
    ELSE IF UserText(user) = "" THEN [ok |-> TRUE, colon |-> FALSE, name |-> "", pass |-> ""]
    ELSE [ok |-> FALSE, colon |-> FALSE, name |-> "", pass |-> ""]

\* shadowsocksOutbound without its check of method and password.
shadowsocksOutbound_NoCredentialCheck(u) ==
    LET hp == splitHostPort(u.host, u.port)
        port == IF hp.port = 0 THEN 8388 ELSE hp.port
        plain == UserText(u.user) # "" /\ ~u.user.b64 /\ u.user.colon
    IN IF hp.err # "" THEN Failure(hp.err)
       ELSE Built([type |-> "shadowsocks", server |-> hp.host, server_port |-> port,
                   method |-> IF plain THEN u.user.name ELSE "",
                   password |-> IF plain THEN u.user.pass ELSE ""])

\* method:password, written out in the userinfo or base64-encoded before
\* the "@".
shadowsocksOutbound(u) ==
    LET hp == splitHostPort(u.host, u.port)
        port == IF hp.port = 0 THEN 8388 ELSE hp.port
        userInfo == UserText(u.user)
        plain == userInfo # "" /\ ~u.user.b64 /\ u.user.colon
        decoded == decodeBase64Compat(u.user)
        cut == ~plain /\ u.user.present /\ decoded.ok /\ decoded.colon
        method == IF plain THEN u.user.name ELSE IF cut THEN decoded.name ELSE ""
        password == IF plain THEN u.user.pass ELSE IF cut THEN decoded.pass ELSE ""
    IN IF hp.err # "" THEN Failure(hp.err)
       ELSE IF method = "" \/ password = ""
            THEN Failure("shadowsocks: cannot parse method/password")
       ELSE Built([type |-> "shadowsocks", server |-> hp.host, server_port |-> port,
                   method |-> method, password |-> password])

\* The text after "vmess://": not base64, base64 of something that is not
\* the JSON object the builder expects, or base64 of such an object.
vmessOutbound(u) ==
    LET v == u.payload
        port == Atoi(v.port)
        aid == Atoi(v.aid)
        serverName == IF v.sni # "" THEN v.sni ELSE IF v.host # "" THEN v.host ELSE v.add
        out == [type |-> "vmess", server |-> v.add, server_port |-> port, uuid |-> v.id,
                security |-> "auto", alter_id |-> IF aid < 0 THEN 0 ELSE aid]
               @@ (IF lowerWord(v.tls) = "tls"
                   THEN "tls" :> ([enabled |-> TRUE] @@ Field("server_name", serverName))
                   ELSE EmptyMap)
        q == [NoQuery EXCEPT !.path = v.path, !.host = v.host]
    IN IF v.form = "not base64" THEN Failure("illegal base64 data")
       ELSE IF v.form = "not json" THEN Failure("invalid character")
       ELSE IF v.form = "port number" THEN Failure("cannot unmarshal number")
       ELSE IF v.add = "" \/ v.id = "" \/ v.port = "" THEN Failure("vmess: missing add/id/port")
       ELSE IF port < 0 THEN Failure("invalid syntax")
       ELSE WithTransport(out, v2rayTransport(lowerWord(v.net), q))

\* outboundFromURI on a whole URI: the empty text, the vmess prefix,
\* url.Parse (which rejects a port that is not a number), then the scheme.
outboundFor(u) ==
    IF u.scheme = "" THEN Failure("empty server uri")
    ELSE IF u.scheme = "vmess" THEN vmessOutbound(u)
    ELSE IF Atoi(AfterColon(u.port)) < 0 /\ AfterColon(u.port) # "" THEN Failure("invalid port")
    ELSE CASE u.scheme = "vless" -> vlessOutbound(u)
           [] u.scheme = "trojan" -> trojanOutbound(u)
           [] u.scheme = "ss" -> shadowsocksOutbound(u)
           [] OTHER -> Failure("unsupported scheme")

\* The URIs the builder is applied to.
EmptyURI == [scheme |-> ""]
URIHosts == {"", "h"}
CredentialUsers == {NoUser, PlainUser("U", FALSE, ""), PlainUser("", TRUE, "p")}
MethodUsers ==
    {NoUser, PlainUser("U", FALSE, ""), PlainUser("m", TRUE, "p"), PlainUser("", TRUE, "p"),
     PlainUser("m", TRUE, ""), Base64User("m", TRUE, "p"), Base64User("mp", FALSE, ""),
     Base64User("", TRUE, "p")}
\* Queries about TLS, REALITY and the ws transport.
TLSQueries ==
    [security : {"", "tls", "reality", "TLS"}, type : {"", "ws", "grpc", "kcp", "WS"},
     flow : {""}, sni : {"", "x.com"}, host : {"", "w.com"}, alpn : {""},
     pbk : {"", "KEY"}, sid : {"", "SID"}, fp : {"", "firefox"}, path : {"", "/p"},
     serviceName : {""}]
\* Queries about the remaining parameters.
PlainQueries ==
    [security : {"", "tls"}, type : {"", "tcp", "grpc"},
     flow : {"", "xtls"}, sni : {""}, host : {""}, alpn : {"", "h2"},
     pbk : {""}, sid : {""}, fp : {""}, path : {""}, serviceName : {"", "svc"}]
TrojanQueries ==
    [security : {""}, type : {"", "ws", "kcp"},
     flow : {""}, sni : {"", "x.com"}, host : {"", "w.com"}, alpn : {"", "h2"},
     pbk : {""}, sid : {""}, fp : {""}, path : {"", "/p"}, serviceName : {""}]
VmessPayloads ==
    [form : {"json"}, add : {"", "h"}, port : {"", "443", "x", "0", "70000"}, id : {"", "U"},
     aid : {"", "0", "x"}, net : {"", "ws", "kcp"}, host : {"", "w.com"}, path : {"", "/p"},
     tls : {"", "tls", "TLS"}, sni : {"", "x.com"}]
    \cup [form : {"not base64", "not json", "port number"}, add : {"h"}, port : {"443"},
          id : {"U"}, aid : {""}, net : {""}, host : {""}, path : {""}, tls : {""}, sni : {""}]
URIs ==
    [scheme : {"vless"}, user : CredentialUsers, host : URIHosts, port : PortTexts,
     query : PlainQueries]
    \cup [scheme : {"vless"}, user : {PlainUser("U", FALSE, "")}, host : URIHosts,
          port : {"", ":443"}, query : TLSQueries]
    \cup [scheme : {"trojan"}, user : CredentialUsers, host : URIHosts, port : PortTexts,
          query : TrojanQueries]
    \cup [scheme : {"ss"}, user : MethodUsers, host : URIHosts, port : PortTexts,
          query : {NoQuery}]
    \cup [scheme : {"vmess"}, payload : VmessPayloads]
    \cup [scheme : {"http"}, user : {NoUser}, host : {"h"}, port : {"", ":443"},
          query : {NoQuery}]
    \cup {EmptyURI}

\* ------------------------------------------------------------- installer
MaxAssets == 2        \* assets of one release
MaxEntries == 2       \* entries of one archive

\* Asset names are sequences of atoms, so that prefix, suffix and
\* substring tests are computed.  The architecture is amd64 throughout.
AssetNames ==
    { <<"sing-box-", "1.2.3", "-", "windows-amd64.zip">>,
      <<"sing-box-", "1.2.3", "-", "legacy", "-", "windows-amd64.zip">>,
      <<"sing-box-", "1.2.2", "-", "windows-amd64.zip">>,
      <<"SFA-", "1.2.3", "-", "windows-amd64.zip">>,
      <<"sing-box-", "1.2.3", "-", "linux-amd64.tar.gz">>,
      <<"sing-box-", "1.2.3", "-", "windows-amd64.zip", ".sha256">> }
\* runtime.GOOS
Platforms == {"windows", "linux", "plan9"}
Releases ==
    [os : Platforms, tag : {<<"v", "1.2.3">>}, assets : SeqsUpTo(AssetNames, MaxAssets)]
NoRelease == [os |-> "windows", tag |-> <<"v">>, assets |-> <<>>]
NoSelection == [err |-> "not selected", name |-> <<>>]

HasPrefix(name, atom) == name # <<>> /\ Head(name) = atom
HasSuffix(name, atom) == name # <<>> /\ name[Len(name)] = atom
ContainsText(name, sub) ==
    \E i \in 1..(Len(name) + 1) :
        /\ i + Len(sub) - 1 <= Len(name)
        /\ SubSeq(name, i, i + Len(sub) - 1) = sub
\* The index of the first element of seq that satisfies Test, or 0.
FirstIndex(seq, Test(_)) ==
    IF \E i \in 1..Len(seq) : Test(seq[i])
    THEN CHOOSE i \in 1..Len(seq) : Test(seq[i]) /\ \A j \in 1..(i - 1) : ~Test(seq[j])
    ELSE 0

wantSuffix(os) ==
    CASE os = "windows" -> "windows-amd64.zip"
      [] os = "linux" -> "linux-amd64.tar.gz"
      [] os = "darwin" -> "darwin-amd64.tar.gz"
      [] OTHER -> ""

\* selectAsset: the first asset that is not a legacy build, ends with the
\* platform suffix, starts with "sing-box-" and holds the version; failing
\* that, the first asset that ends with the platform suffix.
selectAsset(rel) ==
    LET Preferred(a) == /\ ~ContainsText(a, <<"legacy">>)
                        /\ HasSuffix(a, wantSuffix(rel.os))
                        /\ HasPrefix(a, "sing-box-")
                        /\ ContainsText(a, Tail(rel.tag))
        Fallback(a) == HasSuffix(a, wantSuffix(rel.os))
        first == FirstIndex(rel.assets, Preferred)
        second == FirstIndex(rel.assets, Fallback)
    IN IF wantSuffix(rel.os) = "" THEN [err |-> "unsupported os", name |-> <<>>]
       ELSE IF first # 0 THEN [err |-> "", name |-> rel.assets[first]]
       ELSE IF second # 0 THEN [err |-> "", name |-> rel.assets[second]]
       ELSE [err |-> "no asset found", name |-> <<>>]

\* A path: whether it starts at the file system root, and its segments.
Rel(segs) == [abs |-> FALSE, segs |-> segs]
Abs(segs) == [abs |-> TRUE, segs |-> segs]
\* os.MkdirTemp("", "nekkus-singbox-extract-*")
ExtractRoot == Abs(<<"tmp", "extract">>)
\* binaryName() on windows, the one platform whose archive is a zip.
BinaryName == "sing-box.exe"

RECURSIVE CleanSegs(_, _, _)
\* filepath.Clean, segment by segment: "." is dropped, ".." removes the
\* segment before it, is dropped at the root of an absolute path and is
\* kept at the start of a relative one.
CleanSegs(segs, acc, abs) ==
    IF segs = <<>> THEN acc
    ELSE LET h == Head(segs) IN
         IF h = "." THEN CleanSegs(Tail(segs), acc, abs)
         ELSE IF h = ".." THEN
              IF acc # <<>> /\ acc[Len(acc)] # ".."
              THEN CleanSegs(Tail(segs), SubSeq(acc, 1, Len(acc) - 1), abs)
              ELSE IF abs THEN CleanSegs(Tail(segs), acc, abs)
              ELSE CleanSegs(Tail(segs), Append(acc, h), abs)
         ELSE CleanSegs(Tail(segs), Append(acc, h), abs)
\* filepath.Clean; the relative path of no segments is ".".
Clean(p) == [abs |-> p.abs, segs |-> CleanSegs(p.segs, <<>>, p.abs)]
\* filepath.Join(root, rel): the two texts joined by a separator, cleaned.
Join(root, rel) == Clean([abs |-> root.abs, segs |-> root.segs \o rel.segs])
\* filepath.Dir
Dir(p) == [abs |-> p.abs, segs |-> SubSeq(p.segs, 1, Len(p.segs) - 1)]
\* strings.HasPrefix(full, root + separator)
HasDirPrefix(full, root) ==
    /\ full.abs = root.abs
    /\ Len(full.segs) > Len(root.segs)
    /\ SubSeq(full.segs, 1, Len(root.segs)) = root.segs

\* safeJoin without any of its checks.
safeJoin_Unchecked(root, rel) == [err |-> "", full |-> Join(root, Clean(rel))]

safeJoin(root, rel) ==
    LET clean == Clean(rel)
        full == Join(root, clean)
    IN IF clean.segs = <<>> THEN [err |-> "empty path", full |-> root]
       ELSE IF clean.abs THEN [err |-> "absolute path in archive", full |-> root]
       ELSE IF Head(clean.segs) = ".." THEN [err |-> "path traversal in archive", full |-> root]
       ELSE IF ~HasDirPrefix(full, Clean(root)) /\ full # Clean(root)
            THEN [err |-> "path escapes root", full |-> root]
       ELSE [err |-> "", full |-> full]

\* The names of archive entries; the entry named "d" is a directory.
EntryNames ==
    { Rel(<<>>), Rel(<<"sing-box.exe">>), Rel(<<"d", "sing-box.exe">>), Rel(<<"d", "lib.dll">>),
      Rel(<<".", "lib.dll">>), Rel(<<"d">>), Rel(<<"d", "..">>),
      Rel(<<"..", "evil">>), Rel(<<"d", "..", "..", "evil">>), Abs(<<"evil">>) }
Entries == {[name |-> n, dir |-> (n = Rel(<<"d">>))] : n \in EntryNames}
Archives == SeqsUpTo(Entries, MaxEntries)

\* The directories MkdirAll(p) creates: p and what lies between it and the
\* extraction root.
RECURSIVE MkdirAll(_)
MkdirAll(p) ==
    IF ~HasDirPrefix(p, ExtractRoot) THEN {[path |-> p, dir |-> TRUE]} \ {[path |-> ExtractRoot, dir |-> TRUE]}
    ELSE {[path |-> p, dir |-> TRUE]} \cup MkdirAll(Dir(p))

\* The body of extractZip's loop for one entry with a name: the files and
\* directories it creates, or the error it stops with.
extractEntry(f) ==
    LET dst == safeJoin(ExtractRoot, f.name) IN
    IF dst.err # "" THEN [err |-> dst.err, created |-> {}]
    ELSE IF f.dir THEN [err |-> "", created |-> MkdirAll(dst.full)]
    ELSE [err |-> "", created |-> MkdirAll(Dir(dst.full)) \cup {[path |-> dst.full, dir |-> FALSE]}]

\* The order in which filepath.WalkDir meets names.
SegRank(seg) ==
    CASE seg = "d" -> 1
      [] seg = "evil" -> 2
      [] seg = "lib.dll" -> 3
      [] seg = "sing-box.exe" -> 4
      [] OTHER -> 5
RECURSIVE WalkedBefore(_, _)
WalkedBefore(a, b) ==
    IF a = <<>> THEN b # <<>>
    ELSE IF b = <<>> THEN FALSE
    ELSE IF Head(a) # Head(b) THEN SegRank(Head(a)) < SegRank(Head(b))
    ELSE WalkedBefore(Tail(a), Tail(b))

\* findFile(root, filename): the first file of that name the walk of root
\* meets; created is what the extraction left on disk.
findFile(created, filename) ==
    LET Found == {e \in created : /\ ~e.dir
                                  /\ HasDirPrefix(e.path, ExtractRoot)
                                  /\ e.path.segs[Len(e.path.segs)] = filename}
    IN IF Found = {} THEN [err |-> "not found after extract", path |-> ExtractRoot]
       ELSE [err |-> "",
             path |-> (CHOOSE e \in Found :
                          \A o \in Found \ {e} : WalkedBefore(e.path.segs, o.path.segs)).path]

\* copyDirFiles(srcDir, dstDir): the names of the files directly in srcDir.
copyDirFiles(created, srcDir) ==
    {e.path.segs[Len(e.path.segs)] : e \in {c \in created : ~c.dir /\ Dir(c.path) = srcDir}}

\* os.RemoveAll(extractDir): what is left of the created paths.
RemoveAll(created) == {e \in created : ~HasDirPrefix(e.path, ExtractRoot)}

NoInstall == [err |-> "not run", path |-> ""]
\* The install directories InstallLatest may find.
InstallDirs == {{}, {"sing-box.exe", "old.dll"}}

\* ---------------------------------------------------------------- traffic
\* lastRecv, lastSent and lastTrafficAt (0: the zero time); session is
\* history: the number of the connection during which the sample was taken.
NoSample == [at |-> 0, recv |-> 0, sent |-> 0, session |-> 0]
\* &TrafficStats{}
NoStats == [download |-> 0, upload |-> 0, download_speed |-> 0, upload_speed |-> 0]
\* What the interface counters read, and the seconds since the last sample.
Counters == {[recv |-> 10, sent |-> 10], [recv |-> 30, sent |-> 50]}
Elapsed == {1, 2}
\* int64(float64(int64(now) - int64(last)) / elapsed), negative values
\* replaced by 0.
Speed(now, last, elapsed) == IF now < last THEN 0 ELSE (now - last) \div elapsed

\* ------------------------------------------------- operating-system view
Pids == 1..Len(children)
Alive(c) == children[c].state \in {"running", "listening"}
LiveChildren == {c \in Pids : Alive(c)}
\* A TCP dial to the proxy port succeeds iff some live process listens on it.
PortOpen == \E c \in Pids : children[c].state = "listening"
\* cmd.Wait() has returned: the child exited, or the Cmd was never started.
WaitReturned(c) == c = UnstartedCmd \/ (c \in Pids /\ children[c].state = "exited")

KillChild(c, cs) == [cs EXCEPT ![c] = [@ EXCEPT !.state = "exited"]]

\* ------------------------------------------------------ store operations
MaxSubs == 2          \* subscriptions added in one behaviour

\* The locals of a store operation: UpdateSettings' patch and next (prev is
\* the value it read), the list a save copied, RefreshAllSubscriptions'
\* subs, loop index and results, and the value returned.
NoLocals == [patch |-> NoSettings, prev |-> NoSettings, next |-> NoSettings,
             ret |-> NoSettings, list |-> <<>>, idx |-> 0, results |-> <<>>]

\* UpdateSettings' three if statements.
MergeSettings_Overwrite(cur, patch) == patch
MergeSettings(cur, patch) ==
    [f \in SettingsFields |-> IF patch[f] # "" THEN patch[f] ELSE cur[f]]

\* ------------------------------------------------------------ JSON files
\* U+FFFD, the Unicode replacement character.
ReplacementChar == "\\uFFFD"

\* encoding/json writes a string with every byte that is not valid UTF-8
\* replaced by U+FFFD; a text here is a sequence of atoms.
jsonString(str) ==
    [i \in 1..Len(str) |-> IF str[i] = BadByte THEN ReplacementChar ELSE str[i]]

\* The raw URI line of a node, written as a JSON string.
jsonLine(l) == [l EXCEPT !.frag = jsonString(@), !.host = jsonString(@),
                         !.port = jsonString(@)]

\* A ServerNode as json.MarshalIndent writes it.
MarshalNode(n) ==
    [id |-> jsonString(n.id), name |-> jsonString(n.name),
     address |-> jsonString(n.address), uri |-> jsonLine(n.uri)]

\* json.MarshalIndent(list): a nil servers slice is written as null, any
\* other as an array. The id is ASCII and the URL came out of a JSON
\* request body, so neither holds an invalid byte.
MarshalSubscriptions(list) ==
    [i \in 1..Len(list) |->
        [id |-> list[i].id, url |-> list[i].url,
         null |-> list[i].nil,
         array |-> [j \in 1..Len(list[i].servers) |-> MarshalNode(list[i].servers[j])]]]

\* json.Unmarshal(data, &list): null gives a nil slice, an array a slice of
\* its elements.
UnmarshalSubscriptions(doc) ==
    [i \in 1..Len(doc) |->
        [id |-> doc[i].id, url |-> doc[i].url,
         servers |-> IF doc[i].null THEN <<>> ELSE doc[i].array,
         nil |-> doc[i].null]]

\* json.MarshalIndent(next): every field is omitempty. The values came out
\* of a JSON request body and hold no invalid byte.
MarshalSettings(s) == [f \in {g \in SettingsFields : s[g] # ""} |-> s[f]]

\* json.Unmarshal(data, &next) into a zero Settings: a missing field stays "".
UnmarshalSettings(doc) ==
    [f \in SettingsFields |-> IF f \in DOMAIN doc THEN doc[f] ELSE ""]

\* What loadSubscriptions reads from the file writeSubscriptions(list) wrote.
SubscriptionsOnDisk(list) == UnmarshalSubscriptions(MarshalSubscriptions(list))
\* What loadSettings reads from the file saveSettings(next) wrote.
SettingsOnDisk(next) == UnmarshalSettings(MarshalSettings(next))

\* os.WriteFile succeeds on a sound disk and may fail on a faulty one.
WriteOutcomes == IF disk = "sound" THEN {TRUE} ELSE BOOLEAN

\* An id made of the clock reading alone.
NewSubID_ClockOnly(now, n) == <<"sub", now, 0>>
\* AddSubscription's id: "sub-" + now + "-" + len(s.subscriptions).
NewSubID(now, n) == <<"sub", now, n>>

\* The subscription AddSubscription appends: Servers is nil.
NewSubscription(now, n, url) ==
    [id |-> NewSubID(now, n), url |-> url, servers |-> <<>>, nil |-> TRUE]

\* Index of the first subscription with this ID, 0 when there is none.
IndexOf(subs, id) ==
    IF \E i \in 1..Len(subs) : subs[i].id = id
    THEN CHOOSE i \in 1..Len(subs) :
            subs[i].id = id /\ \A j \in 1..(i - 1) : subs[j].id # id
    ELSE 0

\* s.subscriptions[i].Servers = servers
SetServers(subs, i, sv) ==
    [subs EXCEPT ![i] = [@ EXCEPT !.servers = sv.servers, !.nil = sv.nil]]

\* What the subscription URLs may answer.
URIBody == [enc |-> "base64",
            lines |-> <<[kind |-> "uri", frag |-> <<"A">>, host |-> <<"c">>, port |-> <<"443">>]>>]
YAMLBody == [enc |-> "plain",
             lines |-> <<[kind |-> "proxy", frag |-> <<"A">>, host |-> <<>>, port |-> <<>>]>>]
WordBody == [enc |-> "plain",
             lines |-> <<[kind |-> "word", frag |-> <<>>, host |-> <<>>, port |-> <<>>]>>]
Responses == {FetchError, URIBody, YAMLBody, WordBody}
\* What the two URLs answer, as one assignment each.
RemoteChoices ==
    { [u \in URLs |-> IF u = "u1" THEN FetchError ELSE URIBody],
      [u \in URLs |-> IF u = "u1" THEN URIBody ELSE YAMLBody],
      [u \in URLs |-> IF u = "u1" THEN WordBody ELSE FetchError] }

\* ------------------------------------------------------------------ init
\* The parts of the state a specification does not exercise.
BuilderIdle == uri = EmptyURI /\ outbound = NoOutbound
AssetIdle == release = NoRelease /\ selected = NoSelection
InstallerIdle ==
    /\ archive = <<>>
    /\ extractDir = {}
    /\ installDir = {}
    /\ installStatus = NoInstall
TrafficIdle == lastTraffic = NoSample /\ stats = NoStats

\* -------------------------------------------------------------- log buffer
MaxLog == 2           \* largest capacity a log buffer is made with
MaxAdds == 4          \* Add calls in one behaviour
\* The lines the writers add: one text per writer.
LogLines == {[writer |-> w, text |-> "line"] : w \in Threads}
\* No Snapshot call has returned yet.
NoSnap == [taken |-> FALSE, at |-> 0, lines |-> <<>>]
\* newLogBuffer(1), untouched.
LogIdle == logMax = 1 /\ logData = <<>> /\ logAdded = <<>> /\ logSnap = NoSnap

\* ------------------------------------------------------- proxy supervisor
MaxStarts == 3        \* children one behaviour spawns
\* The zero proxyEngine; cmd is the index of the child e.cmd refers to, 0
\* for nil.
NoSup == [cmd |-> 0, running |-> FALSE, lastError |-> ""]
SupIdle == sup = NoSup /\ supProcs = <<>>

SideIdle == LogIdle /\ SupIdle
AuxIdle ==
    /\ BuilderIdle
    /\ AssetIdle
    /\ InstallerIdle
    /\ TrafficIdle
    /\ disk = "faulty"
    /\ SideIdle

NoResult == [kind |-> "none", stderr |-> ""]
Snapshot == [status |-> status, currentNode |-> currentNode, process |-> process,
             lastConfigPath |-> lastConfigPath, sysProxy |-> sysProxy,
             files |-> files, live |-> LiveChildren,
             settingsFile |-> settingsFile, installDir |-> installDir,
             subscriptions |-> subscriptions, settings |-> settings,
             inGate |-> {u \in Threads : pc[u] = "c_gate"}]
NoSnapshot == [status |-> "disconnected", currentNode |-> NoNode, process |-> NilProc,
               lastConfigPath |-> 0, sysProxy |-> FALSE, files |-> {}, live |-> {},
               settingsFile |-> NoSettings, installDir |-> {},
               subscriptions |-> <<>>, settings |-> NoSettings,
               inGate |-> {}]

\* The engine and the operating system as NewEngine finds them.
EngineInit ==
    /\ status = "disconnected"
    /\ currentNode = NoNode
    /\ process = NilProc
    /\ lastConfigPath = 0
    /\ files = {}
    /\ nConfigs = 0
    /\ children = <<>>
    /\ sysProxy = FALSE
    /\ pc = [t \in Threads |-> "idle"]
    /\ op = [t \in Threads |-> "none"]
    /\ arg = [t \in Threads |-> ""]
    /\ server = [t \in Threads |-> NoNode]
    /\ cfgPath = [t \in Threads |-> 0]
    /\ cfg = [t \in Threads |-> NoURI]
    /\ polls = [t \in Threads |-> 0]
    /\ spawned = [t \in Threads |-> 0]
    /\ waitChild = [t \in Threads |-> NilProc]
    /\ result = [t \in Threads |-> NoResult]
    /\ events = [t \in Threads |-> <<>>]
    /\ entry = [t \in Threads |-> NoSnapshot]

\* An engine constructed over one of the store contents; the store's other
\* state is at its zero value and stays there.
Init ==
    /\ subscriptions \in StoreChoices
    /\ settings = NoSettings
    /\ settingsFile = NoSettings
    /\ subsFile = <<>>
    /\ remote = [u \in URLs |-> FetchError]
    /\ sloc = [t \in Threads |-> NoLocals]
    /\ body = EmptyBody
    /\ parsed = NilServers
    /\ EngineInit
    /\ AuxIdle

\* ------------------------------------------------------------- call frame
InFlight(t) == pc[t] \notin {"idle", "done"}

\* The store's three writing calls; the store's memory at entry is remembered
\* for them alone.
StoreWrites == {"AddSubscription", "UpdateSubscriptionServers", "UpdateSettings"}

EntrySnapshot(o) ==
    IF o \in StoreWrites THEN Snapshot
    ELSE [Snapshot EXCEPT !.subscriptions = <<>>, !.settings = NoSettings]

\* A handler enters operation o with argument a: fresh locals, and the
\* engine state at entry is remembered for the frame conditions.
Enter(t, o, a, next, r, evs) ==
    /\ pc[t] \in {"idle", "done"}
    /\ pc' = [pc EXCEPT ![t] = next]
    /\ op' = [op EXCEPT ![t] = o]
    /\ arg' = [arg EXCEPT ![t] = a]
    /\ server' = [server EXCEPT ![t] = NoNode]
    /\ cfgPath' = [cfgPath EXCEPT ![t] = 0]
    /\ cfg' = [cfg EXCEPT ![t] = NoURI]
    /\ polls' = [polls EXCEPT ![t] = 0]
    /\ spawned' = [spawned EXCEPT ![t] = 0]
    /\ waitChild' = [waitChild EXCEPT ![t] = NilProc]
    /\ result' = [result EXCEPT ![t] = r]
    /\ events' = [events EXCEPT ![t] = evs]
    /\ entry' = [entry EXCEPT ![t] = EntrySnapshot(o)]

\* The call returns r.
Return(t, r) ==
    /\ pc' = [pc EXCEPT ![t] = "done"]
    /\ result' = [result EXCEPT ![t] = r]

Err(kind) == [kind |-> kind, stderr |-> ""]
Ok == [kind |-> "ok", stderr |-> ""]

\* e.setStatus(Error); return err
FailConnect(t, r) ==
    /\ status' = "error"
    /\ Return(t, r)

Emit(t, e) == events' = [events EXCEPT ![t] = Append(@, e)]

\* ---------------------------------------------------------------- Connect
\* Connect entry: e.setStatus(Connecting).
ConnectBegin(t, sid) ==
    /\ Enter(t, "Connect", sid, "c_lookup", NoResult, <<>>)
    /\ status' = "connecting"
    /\ UNCHANGED <<storeVars, auxVars, currentNode, process, lastConfigPath, osVars>>

\* QuickConnect that takes the last server of the list.
QuickConnect_LastServer(t) ==
    LET servers == GetServers(subscriptions) IN
    IF Len(servers) > 0
    THEN /\ Enter(t, "Connect", servers[Len(servers)].id, "c_lookup", NoResult, <<>>)
         /\ status' = "connecting"
         /\ UNCHANGED <<storeVars, auxVars, currentNode, process, lastConfigPath, osVars>>
    ELSE /\ Enter(t, "QuickConnect", "", "done", [kind |-> "no_servers", stderr |-> ""], <<>>)
         /\ UNCHANGED <<storeVars, auxVars, engineVars, osVars>>

\* QuickConnect: Connect(servers[0].ID), or an error when there are none.
QuickConnect(t) ==
    LET servers == GetServers(subscriptions) IN
    IF Len(servers) > 0
    THEN /\ Enter(t, "Connect", servers[1].id, "c_lookup", NoResult, <<>>)
         /\ status' = "connecting"
         /\ UNCHANGED <<storeVars, auxVars, currentNode, process, lastConfigPath, osVars>>
    ELSE /\ Enter(t, "QuickConnect", "", "done", [kind |-> "no_servers", stderr |-> ""], <<>>)
         /\ UNCHANGED <<storeVars, auxVars, engineVars, osVars>>

\* The lookup without the checks on the server's URI.
ConnectLookup_NoURICheck(t) ==
    /\ pc[t] = "c_lookup"
    /\ LET node == GetServer(subscriptions, arg[t]) IN
       IF node = NoNode THEN
           /\ FailConnect(t, Err("not_found"))
           /\ UNCHANGED server
       ELSE
           /\ server' = [server EXCEPT ![t] = node]
           /\ pc' = [pc EXCEPT ![t] = "c_write"]
           /\ UNCHANGED <<status, result>>
    /\ UNCHANGED <<storeVars, auxVars, currentNode, process, lastConfigPath, osVars,
                   op, arg, cfgPath, cfg, polls, spawned, waitChild, events, entry>>

\* Connect, store lookup to config generation (engine.go 207-225).
ConnectLookup(t) ==
    /\ pc[t] = "c_lookup"
    /\ LET node == GetServer(subscriptions, arg[t]) IN
       IF node = NoNode THEN
           /\ FailConnect(t, Err("not_found"))
           /\ UNCHANGED server
       ELSE IF node.uri = NoURI THEN
           /\ FailConnect(t, Err("no_uri"))
           /\ UNCHANGED server
       ELSE IF ~generateSingboxConfig(node) THEN
           /\ FailConnect(t, Err("bad_uri"))
           /\ UNCHANGED server
       ELSE
           /\ server' = [server EXCEPT ![t] = node]
           /\ pc' = [pc EXCEPT ![t] = "c_write"]
           /\ UNCHANGED <<status, result>>
    /\ UNCHANGED <<storeVars, auxVars, currentNode, process, lastConfigPath, osVars,
                   op, arg, cfgPath, cfg, polls, spawned, waitChild, events, entry>>

\* writeTempConfig: a fresh, uniquely named file, remembered in
\* e.lastConfigPath; a disk fault leaves no file behind.
writeTempConfig(t, ioOK) ==
    IF ioOK THEN
        /\ nConfigs < MaxConfigs
        /\ nConfigs' = nConfigs + 1
        /\ files' = files \cup {nConfigs + 1}
        /\ lastConfigPath' = nConfigs + 1
        /\ cfgPath' = [cfgPath EXCEPT ![t] = nConfigs + 1]
    ELSE
        UNCHANGED <<nConfigs, files, lastConfigPath, cfgPath>>

\* Connect, generating the config from the server it holds and writing the
\* config file (engine.go 221-230).
ConnectWrite(t) ==
    /\ pc[t] = "c_write"
    /\ cfg' = [cfg EXCEPT ![t] = server[t].uri]
    /\ \E ioOK \in BOOLEAN :
         /\ writeTempConfig(t, ioOK)
         /\ IF ioOK
            THEN /\ pc' = [pc EXCEPT ![t] = "c_spawn"]
                 /\ Emit(t, "write_config")
                 /\ UNCHANGED <<status, result>>
            ELSE /\ FailConnect(t, Err("write_error"))
                 /\ UNCHANGED events
    /\ UNCHANGED <<storeVars, auxVars, currentNode, process, children, sysProxy,
                   op, arg, server, polls, spawned, waitChild, entry>>

\* Variant of the spawn step that enables the system proxy as soon as the
\* engine has been started, without waiting for its listener.
ConnectSpawn_ProxyEarly(t) ==
    /\ pc[t] = "c_spawn"
    /\ Len(children) < MaxChildren
    /\ children' = Append(children, [state |-> "running", stderr |-> ""])
    /\ process' = Len(children) + 1
    /\ spawned' = [spawned EXCEPT ![t] = Len(children) + 1]
    /\ sysProxy' = TRUE
    /\ pc' = [pc EXCEPT ![t] = "c_gate_enter"]
    /\ events' = [events EXCEPT ![t] = @ \o <<"spawn", "proxy_on">>]
    /\ UNCHANGED <<storeVars, auxVars, status, currentNode, lastConfigPath, files, nConfigs,
                   op, arg, server, cfgPath, cfg, polls, waitChild, result, entry>>

\* Connect, locating the engine binary and starting it (engine.go 232-245).
ConnectSpawn(t) ==
    /\ pc[t] = "c_spawn"
    /\ \E installed \in BOOLEAN, startOK \in BOOLEAN :
         IF ~installed THEN
             /\ FailConnect(t, Err("no_singbox"))
             /\ UNCHANGED <<process, children, events, spawned>>
         ELSE IF ~startOK THEN
             /\ process' = UnstartedCmd
             /\ FailConnect(t, Err("start_error"))
             /\ UNCHANGED <<children, events, spawned>>
         ELSE
             /\ Len(children) < MaxChildren
             /\ children' = Append(children, [state |-> "running", stderr |-> ""])
             /\ process' = Len(children) + 1
             /\ spawned' = [spawned EXCEPT ![t] = Len(children) + 1]
             /\ pc' = [pc EXCEPT ![t] = "c_gate_enter"]
             /\ Emit(t, "spawn")
             /\ UNCHANGED <<status, result>>
    /\ UNCHANGED <<storeVars, auxVars, currentNode, lastConfigPath, files, nConfigs, sysProxy,
                   op, arg, server, cfgPath, cfg, polls, waitChild, entry>>

\* waitForProxyPort entry: the goroutine that feeds exitCh calls Wait on the
\* Cmd that e.process holds at this moment (engine.go 267-270).
ConnectGateEnter(t) ==
    /\ pc[t] = "c_gate_enter"
    /\ process # NilProc
    /\ waitChild' = [waitChild EXCEPT ![t] = process]
    /\ pc' = [pc EXCEPT ![t] = "c_gate"]
    /\ UNCHANGED <<storeVars, auxVars, engineVars, osVars,
                   op, arg, server, cfgPath, cfg, polls, spawned, result, events, entry>>

\* One iteration of the readiness loop (engine.go 272-288): dial first, then
\* look at exitCh, then sleep.  A failure is handed to Connect in result.
ConnectGatePoll(t) ==
    /\ pc[t] = "c_gate"
    /\ polls[t] < MaxPolls
    /\ IF PortOpen THEN
           /\ pc' = [pc EXCEPT ![t] = "c_proxy"]
           /\ Emit(t, "gate_ok")
           /\ UNCHANGED <<polls, result>>
       ELSE IF WaitReturned(waitChild[t]) THEN
           /\ pc' = [pc EXCEPT ![t] = "c_gatefail"]
           /\ result' = [result EXCEPT ![t] =
                 [kind |-> "child_exited", stderr |-> children[spawned[t]].stderr]]
           /\ UNCHANGED <<polls, events>>
       ELSE
           /\ polls' = [polls EXCEPT ![t] = @ + 1]
           /\ UNCHANGED <<pc, result, events>>
    /\ UNCHANGED <<storeVars, auxVars, engineVars, osVars,
                   op, arg, server, cfgPath, cfg, spawned, waitChild, entry>>

\* Variant of the deadline exit that falls through to success.
ConnectGateDeadline_Success(t) ==
    /\ pc[t] = "c_gate"
    /\ polls[t] = MaxPolls
    /\ pc' = [pc EXCEPT ![t] = "c_proxy"]
    /\ Emit(t, "gate_ok")
    /\ UNCHANGED <<storeVars, auxVars, engineVars, osVars,
                   op, arg, server, cfgPath, cfg, polls, spawned, waitChild, result, entry>>

\* The loop condition fails: the deadline has passed (engine.go 272, 289).
ConnectGateDeadline(t) ==
    /\ pc[t] = "c_gate"
    /\ polls[t] = MaxPolls
    /\ pc' = [pc EXCEPT ![t] = "c_gatefail"]
    /\ result' = [result EXCEPT ![t] = Err("deadline")]
    /\ UNCHANGED <<storeVars, auxVars, engineVars, osVars,
                   op, arg, server, cfgPath, cfg, polls, spawned, waitChild, events, entry>>

\* Connect after a failed gate (engine.go 250-254): kill and reap the child
\* e.process points to, forget it, report Error.
ConnectGateFail(t) ==
    /\ pc[t] = "c_gatefail"
    /\ process \in Pids
    /\ children' = KillChild(process, children)
    /\ Emit(t, "kill")
    /\ process' = NilProc
    /\ status' = "error"
    /\ pc' = [pc EXCEPT ![t] = "done"]
    /\ UNCHANGED <<storeVars, auxVars, currentNode, lastConfigPath, files, nConfigs, sysProxy,
                   op, arg, server, cfgPath, cfg, polls, spawned, waitChild, result, entry>>

\* Connect after a passed gate: setSystemProxy (engine.go 257).
ConnectProxy(t) ==
    /\ pc[t] = "c_proxy"
    /\ sysProxy' = TRUE
    /\ Emit(t, "proxy_on")
    /\ pc' = [pc EXCEPT ![t] = "c_finish"]
    /\ UNCHANGED <<storeVars, auxVars, engineVars, files, nConfigs, children,
                   op, arg, server, cfgPath, cfg, polls, spawned, waitChild, result, entry>>

\* Variant of Connect's last statements that looks the server up again.
ConnectFinish_LookupAgain(t) ==
    /\ pc[t] = "c_finish"
    /\ currentNode' = GetServer(subscriptions, arg[t])
    /\ status' = "connected"
    /\ Return(t, Ok)
    /\ UNCHANGED <<storeVars, auxVars, process, lastConfigPath, osVars,
                   op, arg, server, cfgPath, cfg, polls, spawned, waitChild, events, entry>>

\* Connect's last statements (engine.go 259-262).
ConnectFinish(t) ==
    /\ pc[t] = "c_finish"
    /\ currentNode' = server[t]
    /\ status' = "connected"
    /\ Return(t, Ok)
    /\ UNCHANGED <<storeVars, auxVars, process, lastConfigPath, osVars,
                   op, arg, server, cfgPath, cfg, polls, spawned, waitChild, events, entry>>

\* ------------------------------------------------------------- Disconnect
\* Variant of Disconnect's entry that leaves the system proxy as it is.
DisconnectBegin_KeepProxy(t) ==
    /\ Enter(t, "Disconnect", "", "d_signal", NoResult, <<>>)
    /\ UNCHANGED <<storeVars, auxVars, engineVars, osVars>>

\* Disconnect entry: clearSystemProxy (engine.go 294).
DisconnectBegin(t) ==
    /\ Enter(t, "Disconnect", "", "d_signal", NoResult, <<"proxy_off">>)
    /\ sysProxy' = FALSE
    /\ UNCHANGED <<storeVars, auxVars, engineVars, files, nConfigs, children>>

\* Disconnect: interrupt the child and start the goroutine that waits for
\* it (engine.go 295-301); skipped when there is no started process.
DisconnectSignal(t) ==
    /\ pc[t] = "d_signal"
    /\ IF process \in Pids
       THEN /\ Emit(t, "interrupt")
            /\ waitChild' = [waitChild EXCEPT ![t] = process]
            /\ pc' = [pc EXCEPT ![t] = "d_wait"]
       ELSE /\ pc' = [pc EXCEPT ![t] = "d_config"]
            /\ UNCHANGED <<events, waitChild>>
    /\ UNCHANGED <<storeVars, auxVars, engineVars, osVars,
                   op, arg, server, cfgPath, cfg, polls, spawned, result, entry>>

\* Disconnect: the grace period ends with the child still running, so the
\* process e.process holds is killed (engine.go 304-305).
DisconnectKill(t) ==
    /\ pc[t] = "d_wait"
    /\ ~WaitReturned(waitChild[t])
    /\ process \in Pids
    /\ children' = KillChild(process, children)
    /\ Emit(t, "kill")
    /\ pc' = [pc EXCEPT ![t] = "d_killed"]
    /\ UNCHANGED <<storeVars, auxVars, engineVars, files, nConfigs, sysProxy,
                   op, arg, server, cfgPath, cfg, polls, spawned, waitChild, result, entry>>

\* Disconnect: the waiting goroutine closes done, in the grace period or
\* after the kill; e.process is cleared (engine.go 303, 306, 308).
DisconnectWait(t) ==
    /\ pc[t] \in {"d_wait", "d_killed"}
    /\ WaitReturned(waitChild[t])
    /\ process' = NilProc
    /\ pc' = [pc EXCEPT ![t] = "d_config"]
    /\ UNCHANGED <<storeVars, auxVars, status, currentNode, lastConfigPath, osVars,
                   op, arg, server, cfgPath, cfg, polls, spawned, waitChild, result, events, entry>>

\* Disconnect: remove the last config file (engine.go 310-313).
DisconnectConfig(t) ==
    /\ pc[t] = "d_config"
    /\ IF lastConfigPath # 0
       THEN /\ files' = files \ {lastConfigPath}
            /\ lastConfigPath' = 0
       ELSE UNCHANGED <<files, lastConfigPath>>
    /\ pc' = [pc EXCEPT ![t] = "d_finish"]
    /\ UNCHANGED <<storeVars, auxVars, status, currentNode, process, nConfigs, children, sysProxy,
                   op, arg, server, cfgPath, cfg, polls, spawned, waitChild, result, events, entry>>

\* Disconnect's last statements (engine.go 314-317).
DisconnectFinish(t) ==
    /\ pc[t] = "d_finish"
    /\ currentNode' = NoNode
    /\ status' = "disconnected"
    /\ Return(t, Ok)
    /\ UNCHANGED <<storeVars, auxVars, process, lastConfigPath, osVars,
                   op, arg, server, cfgPath, cfg, polls, spawned, waitChild, events, entry>>

\* --------------------------------------------------------- UpdateSettings
\* UpdateSettings: read s.settings under the read lock, release it, and
\* merge the patch into the copy (store.go 159-171).
UpdateSettingsBegin(t, patch) ==
    /\ Enter(t, "UpdateSettings", "", "u_save", NoResult, <<>>)
    /\ sloc' = [sloc EXCEPT ![t] = [NoLocals EXCEPT !.patch = patch,
                                                     !.prev = settings,
                                                     !.next = MergeSettings(settings, patch)]]
    /\ UNCHANGED <<subscriptions, settings, settingsFile, subsFile, remote, body, parsed, auxVars,
                   engineVars, osVars>>

\* saveSettings: write settings.json; on a failure UpdateSettings returns
\* Settings{} and the error (store.go 135-145, 172-174).
saveSettingsWrite(t) ==
    /\ pc[t] = "u_save"
    /\ \E ioOK \in WriteOutcomes :
         IF ioOK
         THEN /\ settingsFile' = SettingsOnDisk(sloc[t].next)
              /\ pc' = [pc EXCEPT ![t] = "u_store"]
              /\ UNCHANGED <<result, sloc>>
         ELSE /\ Return(t, Err("write_error"))
              /\ sloc' = [sloc EXCEPT ![t].ret = NoSettings]
              /\ UNCHANGED settingsFile
    /\ UNCHANGED <<subscriptions, settings, subsFile, remote, body, parsed, auxVars, engineVars, osVars,
                   op, arg, server, cfgPath, cfg, polls, spawned, waitChild, events, entry>>

\* saveSettings: s.settings = next under the write lock, and UpdateSettings
\* returns next (store.go 146-149, 175).
saveSettingsStore(t) ==
    /\ pc[t] = "u_store"
    /\ settings' = sloc[t].next
    /\ sloc' = [sloc EXCEPT ![t].ret = sloc[t].next]
    /\ Return(t, Ok)
    /\ UNCHANGED <<subscriptions, settingsFile, subsFile, remote, body, parsed, auxVars, engineVars, osVars,
                   op, arg, server, cfgPath, cfg, polls, spawned, waitChild, events, entry>>

\* ---------------------------------------------------------- subscriptions
\* AddSubscription under the write lock: append the new subscription and
\* copy the list (store.go 179-192).
AddSubscriptionBegin(t, url, now) ==
    /\ Len(subscriptions) < MaxSubs
    /\ Enter(t, "AddSubscription", "", "a_write", NoResult, <<>>)
    /\ subscriptions' = Append(subscriptions, NewSubscription(now, Len(subscriptions), url))
    /\ sloc' = [sloc EXCEPT ![t] = [NoLocals EXCEPT !.list = subscriptions']]
    /\ UNCHANGED <<settings, settingsFile, subsFile, remote, body, parsed, auxVars, engineVars, osVars>>

\* writeSubscriptions(list): subscriptions.json becomes the list, or the
\* write fails and the file stays as it was.
writeSubscriptions(t, ioOK) ==
    IF ioOK
    THEN /\ subsFile' = SubscriptionsOnDisk(sloc[t].list)
         /\ Return(t, Ok)
    ELSE /\ UNCHANGED subsFile
         /\ Return(t, Err("write_error"))

\* AddSubscription after the lock is released (store.go 193-196).
AddSubscriptionWrite(t) ==
    /\ pc[t] = "a_write"
    /\ \E ioOK \in WriteOutcomes : writeSubscriptions(t, ioOK)
    /\ UNCHANGED <<subscriptions, settings, settingsFile, remote, sloc, body, parsed, auxVars,
                   engineVars, osVars,
                   op, arg, server, cfgPath, cfg, polls, spawned, waitChild, events, entry>>

\* UpdateSubscriptionServers under the write lock (store.go 212-224); the
\* servers handed in are a parser result.
UpdateSubscriptionServersBegin(t, id, b) ==
    LET i == IndexOf(subscriptions, id) IN
    /\ Enter(t, "UpdateSubscriptionServers", "",
             IF i = 0 THEN "done" ELSE "s_copy",
             IF i = 0 THEN Err("not_found") ELSE NoResult, <<>>)
    /\ subscriptions' = IF i = 0 THEN subscriptions
                        ELSE SetServers(subscriptions, i, ParseContent(b))
    /\ sloc' = [sloc EXCEPT ![t] = NoLocals]
    /\ UNCHANGED <<settings, settingsFile, subsFile, remote, body, parsed, auxVars, engineVars, osVars>>

\* saveSubscriptions: copy the list under the read lock (store.go 100-103).
saveSubscriptionsCopy(t) ==
    /\ pc[t] = "s_copy"
    /\ sloc' = [sloc EXCEPT ![t].list = subscriptions]
    /\ pc' = [pc EXCEPT ![t] = "s_write"]
    /\ UNCHANGED <<subscriptions, settings, settingsFile, subsFile, remote, body, parsed, auxVars,
                   engineVars, osVars,
                   op, arg, server, cfgPath, cfg, polls, spawned, waitChild, result, events, entry>>

\* saveSubscriptions: write the copy (store.go 104).
saveSubscriptionsWrite(t) ==
    /\ pc[t] = "s_write"
    /\ \E ioOK \in WriteOutcomes : writeSubscriptions(t, ioOK)
    /\ UNCHANGED <<subscriptions, settings, settingsFile, remote, sloc, body, parsed, auxVars,
                   engineVars, osVars,
                   op, arg, server, cfgPath, cfg, polls, spawned, waitChild, events, entry>>

\* The process restarts: the caller notes the subscriptions and settings the
\* store holds (kept in list and prev), and store.New(dataDir) loads both
\* files into a new store (store.go 52-66, 68-84, 115-132).
Reopen(t) ==
    /\ Enter(t, "New", "", "done", Ok, <<>>)
    /\ sloc' = [sloc EXCEPT ![t] = [NoLocals EXCEPT !.list = subscriptions,
                                                     !.prev = settings]]
    /\ subscriptions' = subsFile
    /\ settings' = settingsFile
    /\ UNCHANGED <<settingsFile, subsFile, remote, body, parsed, auxVars, engineVars, osVars>>

\* GetSubscriptions: a copy of the list, in the order it is held
\* (store.go 228-237).
GetSubscriptions(subs) == [i \in 1..Len(subs) |-> subs[i]]

\* ---------------------------------------------------------------- refresh
\* RefreshSubscription(subID) as one step: GetSubscription, Fetch,
\* ParseContent, UpdateSubscriptionServers and its save (engine.go 169-183).
\* Its outcome is the status RefreshAllSubscriptions records for it.
\* Variant that empties the server list when the fetch fails.
RefreshSubscription_ClearOnFetchError(subID, ioOK, st) ==
    LET i == IndexOf(subscriptions, subID) IN
    IF i = 0 THEN
        /\ st = "subscription not found"
        /\ UNCHANGED <<subscriptions, subsFile>>
    ELSE IF remote[subscriptions[i].url] = FetchError THEN
        /\ st = "fetch"
        /\ subscriptions' = SetServers(subscriptions, i, ParseContent(EmptyBody))
        /\ subsFile' = IF ioOK THEN SubscriptionsOnDisk(subscriptions') ELSE subsFile
    ELSE
        /\ subscriptions' = SetServers(subscriptions, i, ParseContent(remote[subscriptions[i].url]))
        /\ IF ioOK
           THEN /\ subsFile' = SubscriptionsOnDisk(subscriptions')
                /\ st = "ok"
           ELSE /\ UNCHANGED subsFile
                /\ st = "write_error"

RefreshSubscription(subID, ioOK, st) ==
    LET i == IndexOf(subscriptions, subID) IN
    IF i = 0 THEN
        /\ st = "subscription not found"
        /\ UNCHANGED <<subscriptions, subsFile>>
    ELSE IF remote[subscriptions[i].url] = FetchError THEN
        /\ st = "fetch"
        /\ UNCHANGED <<subscriptions, subsFile>>
    ELSE
        /\ subscriptions' = SetServers(subscriptions, i, ParseContent(remote[subscriptions[i].url]))
        /\ IF ioOK
           THEN /\ subsFile' = SubscriptionsOnDisk(subscriptions')
                /\ st = "ok"
           ELSE /\ UNCHANGED subsFile
                /\ st = "write_error"

RefreshStatuses == {"ok", "fetch", "write_error", "subscription not found"}

\* A caller of Engine.RefreshSubscription(subID) and the error it gets back
\* (engine.go 169-183).
RefreshSubscriptionCall(t, subID) ==
    /\ \E ioOK \in WriteOutcomes, st \in RefreshStatuses :
         /\ RefreshSubscription(subID, ioOK, st)
         /\ Enter(t, "RefreshSubscription", "", "done",
                  IF st = "ok" THEN Ok ELSE Err(st), <<>>)
    /\ sloc' = [sloc EXCEPT ![t] = NoLocals]
    /\ UNCHANGED <<settings, settingsFile, remote, body, parsed, auxVars, engineVars, osVars>>

\* RefreshAllSubscriptions: take the list of subscriptions (engine.go 187-191).
RefreshAllBegin(t) ==
    /\ Enter(t, "RefreshAllSubscriptions", "", "r_loop", NoResult, <<>>)
    /\ sloc' = [sloc EXCEPT ![t] = [NoLocals EXCEPT !.list = subscriptions, !.idx = 1]]
    /\ UNCHANGED <<subscriptions, settings, settingsFile, subsFile, remote, body, parsed, auxVars,
                   engineVars, osVars>>

\* One iteration of the loop, cut short at the first failure.
RefreshAllStep_AbortOnError(t) ==
    /\ pc[t] = "r_loop"
    /\ sloc[t].idx <= Len(sloc[t].list)
    /\ \E ioOK \in WriteOutcomes, st \in RefreshStatuses :
         /\ RefreshSubscription(sloc[t].list[sloc[t].idx].id, ioOK, st)
         /\ sloc' = [sloc EXCEPT ![t].idx = IF st = "ok" THEN @ + 1 ELSE Len(sloc[t].list) + 1,
                                 ![t].results = Append(@, [id |-> sloc[t].list[sloc[t].idx].id,
                                                           status |-> st])]
    /\ UNCHANGED <<settings, settingsFile, remote, body, parsed, auxVars, engineVars, osVars, callVars>>

\* One iteration of the loop (engine.go 193-200).
RefreshAllStep(t) ==
    /\ pc[t] = "r_loop"
    /\ sloc[t].idx <= Len(sloc[t].list)
    /\ \E ioOK \in WriteOutcomes, st \in RefreshStatuses :
         /\ RefreshSubscription(sloc[t].list[sloc[t].idx].id, ioOK, st)
         /\ sloc' = [sloc EXCEPT ![t].idx = @ + 1,
                                 ![t].results = Append(@, [id |-> sloc[t].list[sloc[t].idx].id,
                                                           status |-> st])]
    /\ UNCHANGED <<settings, settingsFile, remote, body, parsed, auxVars, engineVars, osVars, callVars>>

\* RefreshAllSubscriptions returns results (engine.go 201).
RefreshAllReturn(t) ==
    /\ pc[t] = "r_loop"
    /\ sloc[t].idx > Len(sloc[t].list)
    /\ Return(t, Ok)
    /\ UNCHANGED <<storeVars, auxVars, engineVars, osVars,
                   op, arg, server, cfgPath, cfg, polls, spawned, waitChild, events, entry>>

\* ---------------------------------------------------------- InstallSingBox
\* strings.HasSuffix(a.Name, ".zip")
IsZip(name) == HasSuffix(name, "windows-amd64.zip")

\* InstallSingBox calls InstallLatest: getLatestRelease, selectAsset,
\* downloadToTemp, os.MkdirTemp and the archive type (installer.go 268-294).
InstallBegin(t) ==
    \E netOK \in BOOLEAN :
      LET a == selectAsset(release)
          failure == IF ~netOK THEN "network"
                     ELSE IF a.err # "" THEN a.err
                     ELSE IF ~IsZip(a.name) THEN "unsupported archive type"
                     ELSE ""
      IN /\ Enter(t, "InstallSingBox", "", IF failure = "" THEN "i_extract" ELSE "done",
                  IF failure = "" THEN NoResult ELSE Err(failure), <<>>)
         /\ selected' = IF netOK THEN a ELSE NoSelection
         /\ extractDir' = {}
         /\ installStatus' = IF failure = "" THEN NoInstall ELSE [err |-> failure, path |-> ""]
         /\ sloc' = [sloc EXCEPT ![t] = [NoLocals EXCEPT !.idx = 1]]
         /\ UNCHANGED <<subscriptions, settings, settingsFile, subsFile, remote, body, parsed,
                        uri, outbound, release, archive, installDir, lastTraffic, stats, disk, sideVars,
                        engineVars, osVars>>

\* extractZip's loop skipping a rejected entry instead of stopping.
ExtractEntry_SkipRejected(t) ==
    /\ pc[t] = "i_extract"
    /\ sloc[t].idx <= Len(archive)
    /\ LET f == archive[sloc[t].idx] IN
       /\ extractDir' = IF f.name = Rel(<<>>) THEN extractDir
                        ELSE extractDir \cup extractEntry(f).created
       /\ sloc' = [sloc EXCEPT ![t].idx = @ + 1]
    /\ UNCHANGED <<subscriptions, settings, settingsFile, subsFile, remote, body, parsed,
                   uri, outbound, release, selected, archive, installDir, installStatus,
                   lastTraffic, stats, disk, sideVars, engineVars, osVars, callVars>>

\* One iteration of extractZip's loop (installer.go 173-205): an entry
\* without a name is skipped, an entry safeJoin rejects ends the extraction
\* with its error, any other entry is created under the extraction root.
ExtractEntry(t) ==
    /\ pc[t] = "i_extract"
    /\ sloc[t].idx <= Len(archive)
    /\ LET f == archive[sloc[t].idx]
           r == extractEntry(f)
       IN IF f.name = Rel(<<>>) THEN
              /\ sloc' = [sloc EXCEPT ![t].idx = @ + 1]
              /\ UNCHANGED <<extractDir, pc, result>>
          ELSE IF r.err # "" THEN
              /\ pc' = [pc EXCEPT ![t] = "i_cleanup"]
              /\ result' = [result EXCEPT ![t] = Err(r.err)]
              /\ UNCHANGED <<extractDir, sloc>>
          ELSE
              /\ extractDir' = extractDir \cup r.created
              /\ sloc' = [sloc EXCEPT ![t].idx = @ + 1]
              /\ UNCHANGED <<pc, result>>
    /\ UNCHANGED <<subscriptions, settings, settingsFile, subsFile, remote, body, parsed,
                   uri, outbound, release, selected, archive, installDir, installStatus,
                   lastTraffic, stats, disk, sideVars, engineVars, osVars,
                   op, arg, server, cfgPath, cfg, polls, spawned, waitChild, events, entry>>

\* After the loop: findFile, os.MkdirAll(installDir) and copyDirFiles
\* (installer.go 296-309).
InstallCopy(t) ==
    /\ pc[t] = "i_extract"
    /\ sloc[t].idx > Len(archive)
    /\ LET bin == findFile(extractDir, BinaryName) IN
       \E ioOK \in BOOLEAN :
         IF bin.err # "" THEN
             /\ result' = [result EXCEPT ![t] = Err(bin.err)]
             /\ UNCHANGED installDir
         ELSE IF ~ioOK THEN
             /\ result' = [result EXCEPT ![t] = Err("write_error")]
             /\ UNCHANGED installDir
         ELSE
             /\ installDir' = installDir \cup copyDirFiles(extractDir, Dir(bin.path))
             /\ result' = [result EXCEPT ![t] = Ok]
    /\ pc' = [pc EXCEPT ![t] = "i_cleanup"]
    /\ UNCHANGED <<storeVars, engineVars, osVars,
                   uri, outbound, release, selected, archive, extractDir, installStatus,
                   lastTraffic, stats, disk, sideVars,
                   op, arg, server, cfgPath, cfg, polls, spawned, waitChild, events, entry>>

\* InstallLatest returns: the deferred os.RemoveAll(extractDir) runs, and
\* InstallSingBox passes an error on (installer.go 283, 316-323;
\* engine.go 125-128).
InstallCleanup(t) ==
    /\ pc[t] = "i_cleanup"
    /\ extractDir' = RemoveAll(extractDir)
    /\ IF result[t] = Ok
       THEN /\ installStatus' = [err |-> "", path |-> "installed"]
            /\ pc' = [pc EXCEPT ![t] = "i_settings"]
            /\ result' = [result EXCEPT ![t] = NoResult]
       ELSE /\ installStatus' = [err |-> result[t].kind, path |-> ""]
            /\ pc' = [pc EXCEPT ![t] = "done"]
            /\ UNCHANGED result
    /\ UNCHANGED <<storeVars, engineVars, osVars,
                   uri, outbound, release, selected, archive, installDir,
                   lastTraffic, stats, disk, sideVars,
                   op, arg, server, cfgPath, cfg, polls, spawned, waitChild, events, entry>>

\* InstallSingBox records the path: UpdateSettings(Settings{SingBoxPath}),
\* whose error is dropped (engine.go 129-132).
InstallSettings(t) ==
    /\ pc[t] = "i_settings"
    /\ LET next == MergeSettings(settings, [NoSettings EXCEPT !.sing_box_path = installStatus.path])
       IN \E ioOK \in WriteOutcomes :
            IF ioOK THEN settingsFile' = SettingsOnDisk(next) /\ settings' = next
            ELSE UNCHANGED <<settings, settingsFile>>
    /\ Return(t, Ok)
    /\ UNCHANGED <<subscriptions, subsFile, remote, sloc, body, parsed, auxVars, engineVars, osVars,
                   op, arg, server, cfgPath, cfg, polls, spawned, waitChild, events, entry>>

\* ---------------------------------------------------------- GetTrafficStats
\* GetTrafficStats (traffic.go 61-96): while not Connected it clears
\* lastTrafficAt and returns zeros; while Connected it reads the counters,
\* derives the speeds from the previous sample if there is one, and keeps
\* the new sample.
sampleTraffic ==
    IF status # "connected" THEN
        /\ lastTraffic' = [lastTraffic EXCEPT !.at = 0]
        /\ stats' = NoStats
    ELSE \E c \in Counters, ok \in BOOLEAN, elapsed \in Elapsed :
           LET recv == IF ok THEN c.recv ELSE 0
               sent == IF ok THEN c.sent ELSE 0
               timed == ok /\ lastTraffic.at # 0
           IN /\ stats' = [download |-> recv, upload |-> sent,
                           download_speed |-> IF timed THEN Speed(recv, lastTraffic.recv, elapsed)
                                              ELSE 0,
                           upload_speed |-> IF timed THEN Speed(sent, lastTraffic.sent, elapsed)
                                            ELSE 0]
              /\ lastTraffic' = [at |-> 1, recv |-> recv, sent |-> sent, session |-> nConfigs]

\* stats, err := engine.GetTrafficStats()
GetTrafficStats(t) ==
    /\ Enter(t, "GetTrafficStats", "", "done", Ok, <<>>)
    /\ sampleTraffic
    /\ UNCHANGED <<storeVars, engineVars, osVars,
                   uri, outbound, release, selected, archive, extractDir, installDir,
                   installStatus, disk, sideVars>>

\* ----------------------------------------------------------- GET /api/status
\* The handler is entered (part_009 441-443).
StatusBegin(t) ==
    /\ Enter(t, "GetStatus", "", "q_node", NoResult, <<>>)
    /\ UNCHANGED <<storeVars, auxVars, engineVars, osVars>>

\* server := engine.GetCurrentServer(): e.currentNode is read with no lock
\* held (part_009 444; engine.go 68-70).
StatusNode(t) ==
    /\ pc[t] = "q_node"
    /\ server' = [server EXCEPT ![t] = currentNode]
    /\ pc' = [pc EXCEPT ![t] = "q_status"]
    /\ UNCHANGED <<storeVars, auxVars, engineVars, osVars,
                   op, arg, cfgPath, cfg, polls, spawned, waitChild, result, events, entry>>

\* connected := engine.GetStatus() == vpn.Connected, under statusMu
\* (part_009 449; engine.go 56-60).
StatusFlag(t) ==
    /\ pc[t] = "q_status"
    /\ result' = [result EXCEPT ![t] = [kind |-> status, stderr |-> ""]]
    /\ pc' = [pc EXCEPT ![t] = "q_traffic"]
    /\ UNCHANGED <<storeVars, auxVars, engineVars, osVars,
                   op, arg, server, cfgPath, cfg, polls, spawned, waitChild, events, entry>>

\* engine.GetTrafficStats() and the response (part_009 452-468).
StatusTraffic(t) ==
    /\ pc[t] = "q_traffic"
    /\ sampleTraffic
    /\ pc' = [pc EXCEPT ![t] = "done"]
    /\ UNCHANGED <<storeVars, engineVars, osVars,
                   uri, outbound, release, selected, archive, extractDir, installDir,
                   installStatus, disk, sideVars,
                   op, arg, server, cfgPath, cfg, polls, spawned, waitChild, result, events, entry>>

\* The engine fields the statement at position p reads or writes, and
\* whether statusMu is held meanwhile: only GetStatus and setStatus take it.
Access(field, write, locked) == [field |-> field, write |-> write, locked |-> locked]
Touches(p) ==
    CASE p = "c_lookup" -> {Access("status", TRUE, TRUE)}
      [] p = "c_write" -> {Access("lastConfigPath", TRUE, FALSE), Access("status", TRUE, TRUE)}
      [] p = "c_spawn" -> {Access("process", TRUE, FALSE), Access("status", TRUE, TRUE)}
      [] p = "c_gate_enter" -> {Access("process", FALSE, FALSE)}
      [] p = "c_gatefail" -> {Access("process", TRUE, FALSE), Access("status", TRUE, TRUE)}
      [] p = "c_finish" -> {Access("currentNode", TRUE, FALSE), Access("status", TRUE, TRUE)}
      [] p = "d_signal" -> {Access("process", FALSE, FALSE)}
      [] p \in {"d_wait", "d_killed"} -> {Access("process", TRUE, FALSE)}
      [] p = "d_config" -> {Access("lastConfigPath", TRUE, FALSE)}
      [] p = "d_finish" -> {Access("currentNode", TRUE, FALSE), Access("status", TRUE, TRUE)}
      [] p = "q_node" -> {Access("currentNode", FALSE, FALSE)}
      [] p \in {"q_status", "q_traffic"} -> {Access("status", FALSE, TRUE)}
      [] OTHER -> {}

\* -------------------------------------------------------------- logBuffer
\* The variables outside the log buffer and the supervisor.
mainVars == <<storeVars, engineVars, osVars, callVars,
              uri, outbound, release, selected, archive, extractDir, installDir,
              installStatus, lastTraffic, stats, disk>>

\* Add that appends without dropping anything.
Add_NoDrop(line) ==
    /\ Len(logAdded) < MaxAdds
    /\ logData' = Append(logData, line)
    /\ logAdded' = Append(logAdded, line)
    /\ UNCHANGED <<mainVars, logMax, logSnap, sup, supProcs>>

\* b.Add(line), all of it under b.mu: drop the first line when the buffer
\* is full, then append (main.go 2201-2211).
Add(line) ==
    /\ Len(logAdded) < MaxAdds
    /\ logData' = Append(IF Len(logData) >= logMax THEN Tail(logData) ELSE logData, line)
    /\ logAdded' = Append(logAdded, line)
    /\ UNCHANGED <<mainVars, logMax, logSnap, sup, supProcs>>

\* b.Snapshot(): a new slice with the lines copied into it (main.go
\* 2213-2222); `at` notes how many lines had been added by then.
LogSnapshot ==
    /\ logSnap' = [taken |-> TRUE, at |-> Len(logAdded),
                   lines |-> [i \in 1..Len(logData) |-> logData[i]]]
    /\ UNCHANGED <<mainVars, logMax, logData, logAdded, sup, supProcs>>

\* ------------------------------------------------------------ proxyEngine
\* Process.Kill(): a running child is killed; on one that is gone the call
\* fails and changes nothing.
SupKill(c, procs) ==
    IF c \in 1..Len(procs) /\ procs[c].state = "running"
    THEN [procs EXCEPT ![c] = [@ EXCEPT !.state = "killed"]]
    ELSE procs

\* proxyEngine.Start, all of it under e.mu (main.go 1322-1364): kill the
\* child of a running engine, then attach the pipes and start the new one.
SupStart ==
    \E pipeOK \in BOOLEAN, startOK \in BOOLEAN :
      LET killOld == sup.running /\ sup.cmd # 0
          procs == IF killOld THEN SupKill(sup.cmd, supProcs) ELSE supProcs
          running == IF killOld THEN FALSE ELSE sup.running
      IN /\ IF ~pipeOK THEN
                /\ sup' = [sup EXCEPT !.running = running, !.lastError = "pipe error"]
                /\ supProcs' = procs
            ELSE IF ~startOK THEN
                /\ sup' = [sup EXCEPT !.running = running, !.lastError = "start error"]
                /\ supProcs' = procs
            ELSE
                /\ Len(supProcs) < MaxStarts
                /\ supProcs' = Append(procs, [state |-> "running", reaped |-> FALSE])
                /\ sup' = [cmd |-> Len(supProcs) + 1, running |-> TRUE, lastError |-> ""]
         /\ UNCHANGED <<mainVars, logMax, logData, logAdded, logSnap>>

\* proxyEngine.Stop (main.go 1366-1374).
SupStop ==
    /\ supProcs' = SupKill(sup.cmd, supProcs)
    /\ sup' = [sup EXCEPT !.running = FALSE]
    /\ UNCHANGED <<mainVars, logMax, logData, logAdded, logSnap>>

\* A child exits by itself, with status 0 or not.
SupChildExit(c, clean) ==
    /\ c \in 1..Len(supProcs)
    /\ supProcs[c].state = "running"
    /\ supProcs' = [supProcs EXCEPT ![c] = [@ EXCEPT !.state = IF clean THEN "exited" ELSE "failed"]]
    /\ UNCHANGED <<mainVars, logMax, logData, logAdded, logSnap, sup>>

\* The goroutine Start left behind for child c: cmd.Wait() has returned,
\* and under e.mu it clears running and, when Wait gave an error, sets
\* lastError (main.go 1353-1361).
SupWaiter(c) ==
    /\ c \in 1..Len(supProcs)
    /\ supProcs[c].state # "running"
    /\ ~supProcs[c].reaped
    /\ supProcs' = [supProcs EXCEPT ![c] = [@ EXCEPT !.reaped = TRUE]]
    /\ sup' = [sup EXCEPT !.running = FALSE,
                          !.lastError = CASE supProcs[c].state = "killed" -> "signal: killed"
                                          [] supProcs[c].state = "failed" -> "exit status 1"
                                          [] OTHER -> @]
    /\ UNCHANGED <<mainVars, logMax, logData, logAdded, logSnap>>

\* ------------------------------------------------------------ environment
\* An engine child opens its mixed inbound; the port must be free.
ChildListen(c) ==
    /\ c \in Pids
    /\ children[c].state = "running"
    /\ ~PortOpen
    /\ children' = [children EXCEPT ![c] = [@ EXCEPT !.state = "listening"]]
    /\ UNCHANGED <<storeVars, auxVars, engineVars, files, nConfigs, sysProxy, callVars>>

\* An engine child exits on its own, leaving some text on stderr.
ChildExit(c, text) ==
    /\ c \in Pids
    /\ Alive(c)
    /\ children' = [children EXCEPT ![c] = [state |-> "exited", stderr |-> text]]
    /\ UNCHANGED <<storeVars, auxVars, engineVars, files, nConfigs, sysProxy, callVars>>

\* ---------------------------------------------------------- specification
Step(t) ==
    \/ \E sid \in ServerQueries : ConnectBegin(t, sid)
    \/ QuickConnect(t)
    \/ ConnectLookup(t)
    \/ ConnectWrite(t)
    \/ ConnectSpawn(t)
    \/ ConnectGateEnter(t)
    \/ ConnectGatePoll(t)
    \/ ConnectGateDeadline(t)
    \/ ConnectGateFail(t)
    \/ ConnectProxy(t)
    \/ ConnectFinish(t)
    \/ DisconnectBegin(t)
    \/ DisconnectSignal(t)
    \/ DisconnectKill(t)
    \/ DisconnectWait(t)
    \/ DisconnectConfig(t)
    \/ DisconnectFinish(t)

Env ==
    \/ \E c \in 1..MaxChildren : ChildListen(c)
    \/ \E c \in 1..MaxChildren, text \in StderrTexts : ChildExit(c, text)

\* One handler at a time: calls follow one another and never overlap.
Next == Step(1) \/ Env

Spec == Init /\ [][Next]_vars

\* ------------------------------------------------------- overlapping calls
\* Connect and Disconnect take no lock around their bodies (only setStatus
\* locks), so two handlers interleave statement by statement.  A nil
\* e.process is then dereferenced where one handler cleared the field under
\* the other: the calling goroutine panics.
Panic == [kind |-> "panic", stderr |-> ""]

\* waitForProxyPort's goroutine calls e.process.Wait() on a nil e.process.
ConnectGateEnterPanic(t) ==
    /\ pc[t] = "c_gate_enter"
    /\ process = NilProc
    /\ Return(t, Panic)
    /\ UNCHANGED <<storeVars, auxVars, engineVars, osVars,
                   op, arg, server, cfgPath, cfg, polls, spawned, waitChild, events, entry>>

\* Connect's failure path calls e.process.Process.Kill() on a nil e.process
\* or on a Cmd that was never started.
ConnectGateFailPanic(t) ==
    /\ pc[t] = "c_gatefail"
    /\ process \notin Pids
    /\ Return(t, Panic)
    /\ UNCHANGED <<storeVars, auxVars, engineVars, osVars,
                   op, arg, server, cfgPath, cfg, polls, spawned, waitChild, events, entry>>

\* Each handler makes one call: a handler that has returned stays returned.
ConnectOnce(t, sid) == pc[t] = "idle" /\ ConnectBegin(t, sid)
QuickConnectOnce(t) == pc[t] = "idle" /\ QuickConnect(t)
DisconnectOnce(t) == pc[t] = "idle" /\ DisconnectBegin(t)

\* Two handlers, each making one call, overlapping freely.
NextConc ==
    \/ \E t \in Threads, sid \in ServerQueries : ConnectOnce(t, sid)
    \/ \E t \in Threads : QuickConnectOnce(t)
    \/ \E t \in Threads : DisconnectOnce(t)
    \/ \E t \in Threads : ConnectLookup(t)
    \/ \E t \in Threads : ConnectWrite(t)
    \/ \E t \in Threads : ConnectSpawn(t)
    \/ \E t \in Threads : ConnectGateEnter(t)
    \/ \E t \in Threads : ConnectGateEnterPanic(t)
    \/ \E t \in Threads : ConnectGatePoll(t)
    \/ \E t \in Threads : ConnectGateDeadline(t)
    \/ \E t \in Threads : ConnectGateFail(t)
    \/ \E t \in Threads : ConnectGateFailPanic(t)
    \/ \E t \in Threads : ConnectProxy(t)
    \/ \E t \in Threads : ConnectFinish(t)
    \/ \E t \in Threads : DisconnectSignal(t)
    \/ \E t \in Threads : DisconnectKill(t)
    \/ \E t \in Threads : DisconnectWait(t)
    \/ \E t \in Threads : DisconnectConfig(t)
    \/ \E t \in Threads : DisconnectFinish(t)
    \/ Env

SpecConc == Init /\ [][NextConc]_vars

\* A fair variant for termination: the handler's goroutine keeps running.
FairSpec == Spec /\ WF_vars(Step(1))

\* --------------------------------------------------------- settings specs
\* The store's state outside the part a specification exercises.
StoreIdle ==
    /\ sloc = [t \in Threads |-> NoLocals]
    /\ body = EmptyBody
    /\ parsed = NilServers

\* A store opened over any settings file (store.go 52-66, 115-132).
InitSettings ==
    /\ settings \in SettingsValues
    /\ settingsFile = settings
    /\ subscriptions = <<>>
    /\ subsFile = <<>>
    /\ remote = [u \in URLs |-> FetchError]
    /\ StoreIdle
    /\ EngineInit
    /\ AuxIdle

\* One handler, one POST /api/settings after another.
NextSettings ==
    \/ \E patch \in SettingsValues : UpdateSettingsBegin(1, patch)
    \/ saveSettingsWrite(1)
    \/ saveSettingsStore(1)

SpecSettings == InitSettings /\ [][NextSettings]_vars

\* Two handlers, each serving one POST /api/settings.
UpdateSettingsOnce(t, patch) == pc[t] = "idle" /\ UpdateSettingsBegin(t, patch)

NextSettingsConc ==
    \/ \E t \in Threads, patch \in SettingsValues : UpdateSettingsOnce(t, patch)
    \/ \E t \in Threads : saveSettingsWrite(t)
    \/ \E t \in Threads : saveSettingsStore(t)

SpecSettingsConc == InitSettings /\ [][NextSettingsConc]_vars

\* ---------------------------------------------------- subscriptions spec
\* A store opened over an empty data directory; each URL answers one way.
InitSubs ==
    /\ subscriptions = <<>>
    /\ subsFile = <<>>
    /\ remote \in RemoteChoices
    /\ settings = NoSettings
    /\ settingsFile = NoSettings
    /\ StoreIdle
    /\ EngineInit
    /\ AuxIdle

\* The ids UpdateSubscriptionServers is called with: issued ones and one
\* that was never issued.
SubIDs == {NewSubID(now, n) : now \in Clock, n \in 0..MaxSubs}

\* One handler: POST /api/subscriptions, POST /api/subscriptions/refresh
\* and the store's UpdateSubscriptionServers, one call after another.
NextSubs ==
    \/ \E url \in URLs, now \in Clock : AddSubscriptionBegin(1, url, now)
    \/ AddSubscriptionWrite(1)
    \/ \E id \in SubIDs, b \in Responses \ {FetchError} : UpdateSubscriptionServersBegin(1, id, b)
    \/ saveSubscriptionsCopy(1)
    \/ saveSubscriptionsWrite(1)
    \/ RefreshAllBegin(1)
    \/ RefreshAllStep(1)
    \/ RefreshAllReturn(1)

SpecSubs == InitSubs /\ [][NextSubs]_vars

\* ---------------------------------------------------------- refresh spec
\* The calls of the subscriptions spec and single refreshes, of issued ids and
\* of one that was never issued.
NextRefresh ==
    \/ NextSubs
    \/ \E id \in SubIDs : RefreshSubscriptionCall(1, id)

SpecRefresh == InitSubs /\ [][NextRefresh]_vars

\* ----------------------------------------------------------- reopen spec
\* A node list whose one URI carries a percent-encoded byte in its name.
BadNameBody == [enc |-> "plain",
                lines |-> <<[kind |-> "uri", frag |-> <<EscapedBadByte>>,
                             host |-> <<"c">>, port |-> <<"443">>]>>]
\* The bodies UpdateSubscriptionServers' servers are parsed from.
ReopenBodies == {URIBody, WordBody, BadNameBody}

\* A store opened over an empty data directory on a disk whose writes
\* succeed.
InitReopen ==
    /\ subscriptions = <<>>
    /\ subsFile = <<>>
    /\ remote = [u \in URLs |-> FetchError]
    /\ settings = NoSettings
    /\ settingsFile = NoSettings
    /\ StoreIdle
    /\ EngineInit
    /\ BuilderIdle /\ AssetIdle /\ InstallerIdle /\ TrafficIdle
    /\ disk = "sound"
    /\ SideIdle

\* One caller: AddSubscription, UpdateSubscriptionServers and
\* UpdateSettings one call after another, and a restart between calls.
NextReopen ==
    \/ \E url \in URLs, now \in Clock : AddSubscriptionBegin(1, url, now)
    \/ AddSubscriptionWrite(1)
    \/ \E id \in SubIDs, b \in ReopenBodies : UpdateSubscriptionServersBegin(1, id, b)
    \/ saveSubscriptionsCopy(1)
    \/ saveSubscriptionsWrite(1)
    \/ \E patch \in SettingsValues : UpdateSettingsBegin(1, patch)
    \/ saveSettingsWrite(1)
    \/ saveSettingsStore(1)
    \/ Reopen(1)

SpecReopen == InitReopen /\ [][NextReopen]_vars

\* ------------------------------------------------- refresh during Connect
\* The server of id "A-h1" as a later answer of the subscription URL gives it.
ServerA2 == [id |-> "A-h1", name |-> "A", uri |-> [scheme |-> "trojan", user |-> "pw2", host |-> "h9"]]
\* The server lists a refresh hands to UpdateSubscriptionServers.
RefreshedLists == {<<>>, <<ServerA2, ServerY>>}

\* UpdateSubscriptionServers as a refresh calls it: the subscription's
\* Servers field is assigned the new slice under the write lock, and the
\* list is saved (store.go 211-226). The names here are ASCII words, which
\* JSON writes and reads back as they are. The call reads no engine state,
\* so none is remembered for it.
UpdateServers(t, id, list) ==
    LET i == IndexOf(subscriptions, id) IN
    \E ioOK \in WriteOutcomes :
      /\ pc[t] \in {"idle", "done"}
      /\ pc' = [pc EXCEPT ![t] = "done"]
      /\ op' = [op EXCEPT ![t] = "UpdateSubscriptionServers"]
      /\ result' = [result EXCEPT ![t] = IF i = 0 THEN Err("not_found")
                                         ELSE IF ioOK THEN Ok ELSE Err("write_error")]
      /\ subscriptions' = IF i = 0 THEN subscriptions
                          ELSE [subscriptions EXCEPT ![i].servers = list]
      /\ subsFile' = IF i # 0 /\ ioOK THEN subscriptions' ELSE subsFile
      /\ UNCHANGED <<settings, settingsFile, remote, sloc, body, parsed, auxVars,
                     engineVars, osVars,
                     arg, server, cfgPath, cfg, polls, spawned, waitChild, events, entry>>

\* Handler 1 makes engine calls one after another while handler 2 replaces
\* the servers of subscriptions.
NextSnapshot ==
    \/ Step(1)
    \/ Env
    \/ \E id \in {"sub-1", "sub-9"}, list \in RefreshedLists : UpdateServers(2, id, list)

SpecSnapshot == Init /\ [][NextSnapshot]_vars

\* ------------------------------------------- overlapping subscription calls
\* The seconds time.Now().Unix() may read during one behaviour.
Ticks == {1, 2}
\* The issued ids and one that was never issued.
TickIDs == {NewSubID(now, n) : now \in Ticks, n \in 0..MaxSubs}

\* The process is restarted while no call is in flight.
Restart == (\A t \in Threads : ~InFlight(t)) /\ Reopen(1)

\* Two handlers over one store on a sound disk: AddSubscription and
\* UpdateSubscriptionServers calls that overlap statement by statement
\* wherever the store holds no lock, and restarts between calls.
NextSubsConc ==
    \/ \E t \in Threads, now \in Ticks : AddSubscriptionBegin(t, "u1", now)
    \/ \E t \in Threads : AddSubscriptionWrite(t)
    \/ \E t \in Threads, id \in TickIDs, b \in {URIBody, WordBody} :
          UpdateSubscriptionServersBegin(t, id, b)
    \/ \E t \in Threads : saveSubscriptionsCopy(t)
    \/ \E t \in Threads : saveSubscriptionsWrite(t)
    \/ Restart

SpecSubsConc == InitReopen /\ [][NextSubsConc]_vars

\* ---------------------------------------------------------- log buffer spec
\* The rest of the program at rest.
InitElsewhere ==
    /\ subscriptions = <<>>
    /\ subsFile = <<>>
    /\ remote = [u \in URLs |-> FetchError]
    /\ settings = NoSettings
    /\ settingsFile = NoSettings
    /\ StoreIdle
    /\ EngineInit
    /\ BuilderIdle /\ AssetIdle /\ InstallerIdle /\ TrafficIdle

\* newLogBuffer(max) for a capacity of at least 1.
InitLog ==
    /\ InitElsewhere
    /\ disk = "faulty" /\ SupIdle
    /\ logMax \in 1..MaxLog
    /\ logData = <<>>
    /\ logAdded = <<>>
    /\ logSnap = NoSnap

\* Writers add lines and readers take snapshots; each call holds b.mu for
\* all it does, so the calls of concurrent goroutines follow one another
\* in lock order.
NextLog ==
    \/ \E line \in LogLines : Add(line)
    \/ LogSnapshot

SpecLog == InitLog /\ [][NextLog]_vars

\* ---------------------------------------------------------- supervisor spec
InitSupervisor ==
    /\ InitElsewhere
    /\ disk = "faulty" /\ LogIdle
    /\ sup = NoSup
    /\ supProcs = <<>>

\* Start and Stop calls, children exiting, and the waiting goroutines, in
\* any order.
NextSupervisor ==
    \/ SupStart
    \/ SupStop
    \/ \E c \in 1..MaxStarts, clean \in BOOLEAN : SupChildExit(c, clean)
    \/ \E c \in 1..MaxStarts : SupWaiter(c)

SpecSupervisor == InitSupervisor /\ [][NextSupervisor]_vars

\* ------------------------------------------------------- faulty disk spec
\* One caller on a disk whose writes may fail: AddSubscription,
\* UpdateSubscriptionServers and UpdateSettings, one call after another.
NextFaulty ==
    \/ \E url \in URLs, now \in Clock : AddSubscriptionBegin(1, url, now)
    \/ AddSubscriptionWrite(1)
    \/ \E id \in SubIDs, b \in {URIBody, WordBody} : UpdateSubscriptionServersBegin(1, id, b)
    \/ saveSubscriptionsCopy(1)
    \/ saveSubscriptionsWrite(1)
    \/ \E patch \in {NoSettings, [NoSettings EXCEPT !.default_server = "v1"]} :
          UpdateSettingsBegin(1, patch)
    \/ saveSettingsWrite(1)
    \/ saveSettingsStore(1)

SpecFaulty == InitSubs /\ [][NextFaulty]_vars

\* ------------------------------------------------------------ parser spec
\* Any body of at most MaxLines lines, parsed once.
InitParse ==
    /\ body \in Bodies
    /\ parsed = NilServers
    /\ subscriptions = <<>>
    /\ subsFile = <<>>
    /\ remote = [u \in URLs |-> FetchError]
    /\ settings = NoSettings
    /\ settingsFile = NoSettings
    /\ sloc = [t \in Threads |-> NoLocals]
    /\ EngineInit
    /\ AuxIdle

\* servers, err := subscription.ParseContent(body)
Parse ==
    /\ pc[1] = "idle"
    /\ Enter(1, "ParseContent", "", "done", Ok, <<>>)
    /\ parsed' = ParseContent(body)
    /\ UNCHANGED <<subscriptions, settings, settingsFile, subsFile, remote, sloc, body, auxVars,
                   engineVars, osVars>>

NextParse == Parse

SpecParse == InitParse /\ [][NextParse]_vars

\* ------------------------------------------------------------ lookup spec
MaxServers == 2       \* servers of one subscription

\* Servers as the parser names them: name "p-h" at address "c", name "p" at
\* address "h", name "q" at address "c".
LookupNodes ==
    { [id |-> "p-h-c", name |-> "p-h", uri |-> ServerA.uri],
      [id |-> "p-h", name |-> "p", uri |-> ServerB.uri],
      [id |-> "q-c", name |-> "q", uri |-> ServerA.uri] }

\* The server lists one parse can leave in a subscription: names differ.
LookupLists ==
    {l \in SeqsUpTo(LookupNodes, MaxServers) :
        \A i \in 1..Len(l), j \in 1..Len(l) : i # j => l[i].name # l[j].name}

\* Stores of one to MaxSubs subscriptions.
LookupStores ==
    UNION {[1..k -> [id : {"sub"}, servers : LookupLists]] : k \in 1..MaxSubs}

LookupQueries == {"p-h", "p", "q-c", "zz"}

InitLookup ==
    /\ subscriptions \in LookupStores
    /\ subsFile = <<>>
    /\ remote = [u \in URLs |-> FetchError]
    /\ settings = NoSettings
    /\ settingsFile = NoSettings
    /\ StoreIdle
    /\ EngineInit
    /\ AuxIdle

\* server, err := e.store.GetServer(q), called once.
GetServerCall(q) ==
    /\ pc[1] = "idle"
    /\ pc' = [pc EXCEPT ![1] = "done"]
    /\ op' = [op EXCEPT ![1] = "GetServer"]
    /\ arg' = [arg EXCEPT ![1] = q]
    /\ server' = [server EXCEPT ![1] = GetServer(subscriptions, q)]
    /\ result' = [result EXCEPT ![1] = IF GetServer(subscriptions, q) = NoNode
                                       THEN Err("not_found") ELSE Ok]
    /\ UNCHANGED <<storeVars, auxVars, engineVars, osVars,
                   cfgPath, cfg, polls, spawned, waitChild, events, entry>>

NextLookup == \E q \in LookupQueries : GetServerCall(q)

SpecLookup == InitLookup /\ [][NextLookup]_vars

\* ----------------------------------------------------------- builder spec
\* Any of the URIs, handed to the builder once.
InitOutbound ==
    /\ uri \in URIs
    /\ outbound = NoOutbound
    /\ AssetIdle
    /\ InstallerIdle
    /\ TrafficIdle
    /\ disk = "faulty"
    /\ SideIdle
    /\ subscriptions = <<>>
    /\ subsFile = <<>>
    /\ remote = [u \in URLs |-> FetchError]
    /\ settings = NoSettings
    /\ settingsFile = NoSettings
    /\ StoreIdle
    /\ EngineInit

\* outbound, err := outboundFromURI(raw)
BuildOutbound ==
    /\ pc[1] = "idle"
    /\ Enter(1, "outboundFromURI", "", "done",
             IF outboundFor(uri).err = "" THEN Ok ELSE Err("outbound"), <<>>)
    /\ outbound' = outboundFor(uri)
    /\ UNCHANGED <<storeVars, engineVars, osVars,
                   uri, release, selected, archive, extractDir, installDir, installStatus,
                   lastTraffic, stats, disk, sideVars>>

NextOutbound == BuildOutbound

SpecOutbound == InitOutbound /\ [][NextOutbound]_vars

\* ------------------------------------------------------------- asset spec
\* Any release of at most MaxAssets assets, on any platform.
InitAsset ==
    /\ release \in Releases
    /\ selected = NoSelection
    /\ BuilderIdle
    /\ InstallerIdle
    /\ TrafficIdle
    /\ disk = "faulty"
    /\ SideIdle
    /\ subscriptions = <<>>
    /\ subsFile = <<>>
    /\ remote = [u \in URLs |-> FetchError]
    /\ settings = NoSettings
    /\ settingsFile = NoSettings
    /\ StoreIdle
    /\ EngineInit

\* a, err := selectAsset(rel)
SelectAsset ==
    /\ pc[1] = "idle"
    /\ Enter(1, "selectAsset", "", "done",
             IF selectAsset(release).err = "" THEN Ok ELSE Err("asset"), <<>>)
    /\ selected' = selectAsset(release)
    /\ UNCHANGED <<storeVars, engineVars, osVars,
                   uri, outbound, release, archive, extractDir, installDir, installStatus,
                   lastTraffic, stats, disk, sideVars>>

NextAsset == SelectAsset

SpecAsset == InitAsset /\ [][NextAsset]_vars

\* ------------------------------------------------------------ install spec
\* The releases an install is run against: one with a zip for windows, and
\* the same release seen from linux.
InstallReleases ==
    {[os |-> o, tag |-> <<"v", "1.2.3">>,
      assets |-> << <<"sing-box-", "1.2.3", "-", "linux-amd64.tar.gz">>,
                    <<"sing-box-", "1.2.3", "-", "windows-amd64.zip">> >>] :
        o \in {"windows", "linux"}}

\* Any archive of at most MaxEntries entries behind the release's asset,
\* and an install directory that is empty or holds an earlier install.
InitInstall ==
    /\ release \in InstallReleases
    /\ selected = NoSelection
    /\ archive \in Archives
    /\ extractDir = {}
    /\ installDir \in InstallDirs
    /\ installStatus = NoInstall
    /\ BuilderIdle
    /\ TrafficIdle
    /\ disk = "faulty"
    /\ SideIdle
    /\ subscriptions = <<>>
    /\ subsFile = <<>>
    /\ remote = [u \in URLs |-> FetchError]
    /\ settings = NoSettings
    /\ settingsFile = NoSettings
    /\ StoreIdle
    /\ EngineInit

\* One handler, one POST /api/deps/singbox/install after another.
NextInstall ==
    \/ InstallBegin(1)
    \/ ExtractEntry(1)
    \/ InstallCopy(1)
    \/ InstallCleanup(1)
    \/ InstallSettings(1)

SpecInstall == InitInstall /\ [][NextInstall]_vars

\* ------------------------------------------------------------ traffic spec
\* One handler: Connect, Disconnect and GetTrafficStats, one call after
\* another.
NextTraffic == Step(1) \/ Env \/ GetTrafficStats(1)

SpecTraffic == Init /\ [][NextTraffic]_vars

\* --------------------------------------------------------- status-query spec
\* Two handlers, each making one call: a Connect, a Disconnect or a
\* GET /api/status, overlapping freely.
StatusOnce(t) == pc[t] = "idle" /\ StatusBegin(t)

NextQuery ==
    \/ NextConc
    \/ \E t \in Threads : StatusOnce(t)
    \/ \E t \in Threads : StatusNode(t)
    \/ \E t \in Threads : StatusFlag(t)
    \/ \E t \in Threads : StatusTraffic(t)

SpecQuery == Init /\ [][NextQuery]_vars

\* ------------------------------------------------------------------ claims
AtRest == \A t \in Threads : ~InFlight(t)
Returned(t, o) == pc[t] = "done" /\ op[t] = o
Contains(seq, e) == \E i \in 1..Len(seq) : seq[i] = e
\* The step appends event e to handler t's list of side effects.
Emits(t, e) == events'[t] = Append(events[t], e)

\* C1: whenever no call is in flight, current_node is set if and only if
\* status = Connected (also after a Connect that failed or was re-issued
\* while Connected).
C1_NodeIffConnected ==
    AtRest => ((currentNode # NoNode) <=> (status = "connected"))

\* C2: when a Disconnect has returned, no child spawned by the engine is
\* alive and no runtime config file created by the engine is left on disk.
C2_DisconnectLeavesNothing ==
    Returned(1, "Disconnect") => (LiveChildren = {} /\ files = {})

\* C3: at every point at most one child spawned by the engine is alive.
C3_AtMostOneLiveChild == Cardinality(LiveChildren) <= 1

\* C4: a Connect called while Connected with the id of the current node
\* returns success and is a no-op: no side effect, and status, current_node
\* and the process handle are what they were at entry.
C4_ReconnectSameIsNoop ==
    (/\ Returned(1, "Connect")
     /\ entry[1].status = "connected"
     /\ entry[1].currentNode # NoNode
     /\ arg[1] = entry[1].currentNode.id)
    => (/\ result[1] = Ok
        /\ events[1] = <<>>
        /\ status = entry[1].status
        /\ currentNode = entry[1].currentNode
        /\ process = entry[1].process)

\* C5: when Connect returns an error from a step after the config file was
\* written, that file no longer exists, no child it spawned is alive and
\* status = Error.
C5_FailedConnectCleansUp ==
    (/\ Returned(1, "Connect")
     /\ result[1].kind \in {"no_singbox", "start_error", "child_exited", "deadline"})
    => (/\ cfgPath[1] \notin files
        /\ (spawned[1] # 0 => ~Alive(spawned[1]))
        /\ status = "error")

\* C6: in every Disconnect the system proxy is switched off strictly before
\* an interrupt or kill signal goes to the engine child: at the step that
\* sends the signal the proxy is off and switching it off was the call's
\* first effect.
C6_ProxyOffBeforeSignal ==
    [][\A t \in Threads :
         (op[t] = "Disconnect" /\ (Emits(t, "interrupt") \/ Emits(t, "kill")))
         => (~sysProxy /\ events[t] # <<>> /\ events[t][1] = "proxy_off")]_vars

C6_Witness ==
    /\ Returned(1, "Disconnect")
    /\ events[1] = <<"proxy_off", "interrupt", "kill">>
    /\ entry[1].sysProxy

\* C7: Connect switches the system proxy on only at a step that follows the
\* readiness gate's success in the same call, and a Connect that returned an
\* error has not switched it on.
C7_ProxyOnOnlyAfterGate ==
    /\ [][\A t \in Threads :
            (Emits(t, "proxy_on") \/ (InFlight(t) /\ sysProxy' /\ ~sysProxy))
            => (/\ op[t] = "Connect"
                /\ events[t] # <<>>
                /\ events[t][Len(events[t])] = "gate_ok")]_vars
    /\ [](\A t \in Threads :
            (Returned(t, "Connect") /\ result[t] # Ok)
            => (~Contains(events[t], "proxy_on") /\ sysProxy = entry[t].sysProxy))

C7_Witness ==
    /\ Returned(1, "Connect")
    /\ result[1].kind = "child_exited"
    /\ ~sysProxy
    /\ \E c \in Pids : children[c].state = "exited"

\* C10: the readiness gate always terminates, with exactly one of three
\* outcomes: success, only at a poll whose dial found the port open; the
\* child-exited error, only when the port was closed and the child had
\* exited, carrying the child's stderr; the deadline error, only when the
\* polls were used up.  It never succeeds without a successful dial.
C10_GateOutcomes ==
    /\ [][\A t \in Threads :
            pc[t] = "c_gate" =>
              /\ pc'[t] \in {"c_gate", "c_proxy", "c_gatefail"}
              /\ (pc'[t] = "c_proxy" => (PortOpen /\ result'[t] = NoResult))
              /\ (pc'[t] = "c_gatefail" =>
                    \/ /\ result'[t].kind = "child_exited"
                       /\ ~PortOpen
                       /\ children[spawned[t]].state = "exited"
                       /\ result'[t].stderr = children[spawned[t]].stderr
                    \/ /\ result'[t] = Err("deadline")
                       /\ polls[t] = MaxPolls)]_vars
    /\ [](\A t \in Threads : polls[t] <= MaxPolls)
    /\ \A t \in {1} : (pc[t] = "c_gate") ~> (pc[t] \in {"c_proxy", "c_gatefail"})

C10_Witness ==
    /\ pc[1] = "c_gatefail"
    /\ result[1] = [kind |-> "child_exited", stderr |-> "port already in use"]
    /\ ~PortOpen

\* The engine fields and live children a Disconnect leaves when nothing
\* overlaps it.
AfterDisconnect ==
    /\ status = "disconnected"
    /\ currentNode = NoNode
    /\ process \notin Pids
    /\ lastConfigPath = 0
    /\ LiveChildren = {}

\* What handler c's Connect leaves when it runs alone after a Disconnect.
AfterConnect(c) ==
    \/ /\ result[c] = Ok
       /\ status = "connected"
       /\ currentNode = server[c]
       /\ process = spawned[c]
       /\ process \in Pids
       /\ lastConfigPath = cfgPath[c]
       /\ LiveChildren \subseteq {spawned[c]}
    \/ /\ result[c] # Ok
       /\ status = "error"
       /\ currentNode = NoNode
       /\ process \notin Pids
       /\ lastConfigPath = cfgPath[c]
       /\ LiveChildren = {}

\* C8: when two calls from {Connect(s), Disconnect()} have both returned,
\* neither has crashed, and for a Connect and a Disconnect the engine state
\* is the one that Connect-then-Disconnect or Disconnect-then-Connect leaves.
C8_TwoCallsSerializable ==
    (pc[1] = "done" /\ pc[2] = "done")
    => /\ \A t \in Threads : result[t] # Panic
       /\ \A c \in Threads, d \in Threads :
            (op[c] = "Connect" /\ op[d] = "Disconnect")
            => (AfterDisconnect \/ AfterConnect(c))

\* C9: when a Disconnect was called while a Connect was waiting in the
\* readiness gate and both have returned, status = Disconnected, no engine
\* child is alive, the system proxy is off and the config file that Connect
\* wrote is gone.
C9_DisconnectPreemptsConnect ==
    \A c \in Threads, d \in Threads :
        (/\ pc[c] = "done" /\ pc[d] = "done"
         /\ op[c] = "Connect" /\ op[d] = "Disconnect"
         /\ c \in entry[d].inGate)
        => (/\ status = "disconnected"
            /\ LiveChildren = {}
            /\ ~sysProxy
            /\ cfgPath[c] \notin files)

\* C11: a Connect on a server whose uri is empty returns the error about
\* the uri, has written no config file, spawned no process and not switched
\* the system proxy on, and leaves status different from Connected.
C11_EmptyURIRejected ==
    (/\ Returned(1, "Connect")
     /\ GetServer(subscriptions, arg[1]) # NoNode
     /\ GetServer(subscriptions, arg[1]).uri = NoURI)
    => (/\ result[1] = Err("no_uri")
        /\ events[1] = <<>>
        /\ cfgPath[1] = 0
        /\ files = entry[1].files
        /\ spawned[1] = 0
        /\ status # "connected")

\* A Connect on the server without uri has returned, called while Connected.
C11_Witness ==
    /\ Returned(1, "Connect")
    /\ arg[1] = "Y"
    /\ result[1] = Err("no_uri")
    /\ entry[1].status = "connected"

\* C12: a QuickConnect over a store without servers returns an error and
\* leaves status, current_node, the process handle and the system proxy as
\* they were; over a store with servers its step is the step with which
\* Connect(id of the first listed server) begins, so the rest of the call is
\* that Connect.
C12_QuickConnectIsConnectFirst ==
    [][QuickConnect(1) =>
         IF GetServers(subscriptions) = <<>>
         THEN /\ pc'[1] = "done"
              /\ result'[1].kind = "no_servers"
              /\ UNCHANGED <<status, currentNode, process, sysProxy>>
         ELSE ConnectBegin(1, GetServers(subscriptions)[1].id)]_vars

\* A QuickConnect over an empty store has returned its error.
C12_Witness ==
    /\ Returned(1, "QuickConnect")
    /\ GetServers(subscriptions) = <<>>
    /\ result[1].kind = "no_servers"
    /\ status = "disconnected"

\* The fields a patch sets.
Sets(patch) == {f \in SettingsFields : patch[f] # ""}

\* C13: when two overlapping UpdateSettings calls whose patches set
\* different fields have both returned without error, the settings in memory
\* and settings.json each hold both patches' values.
C13_NoLostUpdate ==
    (/\ Returned(1, "UpdateSettings") /\ Returned(2, "UpdateSettings")
     /\ result[1] = Ok /\ result[2] = Ok
     /\ Sets(sloc[1].patch) # {} /\ Sets(sloc[2].patch) # {}
     /\ Sets(sloc[1].patch) \cap Sets(sloc[2].patch) = {})
    => \A t \in Threads : \A f \in Sets(sloc[t].patch) :
          /\ settings[f] = sloc[t].patch[f]
          /\ settingsFile[f] = sloc[t].patch[f]

\* C14: an UpdateSettings that returned without error returned, and left in
\* memory and in settings.json, settings whose every field is the patch's
\* field when that is non-empty and the value before the call otherwise.
C14_FieldMerge ==
    (Returned(1, "UpdateSettings") /\ result[1] = Ok)
    => \A f \in SettingsFields :
          LET want == IF sloc[1].patch[f] # "" THEN sloc[1].patch[f] ELSE sloc[1].prev[f] IN
          /\ sloc[1].ret[f] = want
          /\ settings[f] = want
          /\ settingsFile[f] = want

\* An update has returned whose patch left one set field alone and replaced
\* another set field by a different value.
C14_Witness ==
    /\ Returned(1, "UpdateSettings")
    /\ result[1] = Ok
    /\ \E f \in SettingsFields, g \in SettingsFields :
          /\ sloc[1].patch[f] = "" /\ sloc[1].prev[f] # ""
          /\ sloc[1].patch[g] # "" /\ sloc[1].prev[g] # ""
          /\ sloc[1].patch[g] # sloc[1].prev[g]

\* C15: the servers of every subscription, in memory and in
\* subscriptions.json, is a list and never null.
C15_ServersNeverNull ==
    /\ \A i \in 1..Len(subscriptions) : ~subscriptions[i].nil
    /\ \A i \in 1..Len(subsFile) : ~subsFile[i].nil

\* C17: when RefreshAllSubscriptions has returned, there is one result per
\* stored subscription, in subscription order and under its id; a result is
\* the fetch error exactly when that subscription's URL failed, whatever
\* happened to the subscriptions before it, and every subscription whose
\* URL answered holds the servers parsed from the answer.
C17_OneResultPerSubscription ==
    Returned(1, "RefreshAllSubscriptions")
    => LET rs == sloc[1].results IN
       /\ Len(rs) = Len(subscriptions)
       /\ \A i \in 1..Len(subscriptions) :
            LET sub == subscriptions[i]
                answer == remote[sub.url]
            IN /\ i <= Len(rs)
               /\ rs[i].id = sub.id
               /\ rs[i].status \in {"ok", "fetch", "write_error"}
               /\ (rs[i].status = "fetch") <=> (answer = FetchError)
               /\ (answer # FetchError) =>
                     (/\ sub.servers = ParseContent(answer).servers
                      /\ sub.nil = ParseContent(answer).nil)

\* A refresh has returned in which the first subscription failed to fetch
\* and the second was fetched, updated and saved.
C17_Witness ==
    /\ Returned(1, "RefreshAllSubscriptions")
    /\ Len(sloc[1].results) = 2
    /\ sloc[1].results[1].status = "fetch"
    /\ sloc[1].results[2].status = "ok"
    /\ Len(subscriptions) = 2
    /\ subscriptions[2].servers # <<>>
    /\ subsFile = subscriptions

\* The servers the store holds.
Stored == {FlattenServers(subscriptions)[i] : i \in 1..Len(FlattenServers(subscriptions))}

\* C16: GetServer(q) returns a server with id = q whenever some stored
\* server has id = q, returns a server on its name = q only when no stored
\* server has id = q, and returns "not found" when neither matches.
C16_IdFirst ==
    Returned(1, "GetServer")
    => LET q == arg[1] IN
       /\ (\E n \in Stored : n.id = q) => (server[1] \in Stored /\ server[1].id = q)
       /\ (result[1] = Ok /\ server[1].id # q)
             => (server[1] \in Stored /\ server[1].name = q /\ \A n \in Stored : n.id # q)
       /\ (\A n \in Stored : n.id # q /\ n.name # q) => result[1] = Err("not_found")

\* The URI lines the parser recognises in the body, in body order.
BodyURIs == extractURIList(body.lines)
\* The parser found URIs: in the body itself or in its base64 decoding.
Recognised == Returned(1, "ParseContent") /\ ~parsed.nil /\ parsed.servers # <<>>
\* The first URI line whose name has the lowercase form key.
FirstNamed(key) ==
    CHOOSE i \in 1..Len(BodyURIs) :
        /\ ToLower(NodeName(BodyURIs, i)) = key
        /\ \A j \in 1..(i - 1) : ToLower(NodeName(BodyURIs, j)) # key

\* C18: the servers the parser returns have names whose lowercase forms are
\* pairwise distinct; each is the first URI line of the body with that
\* name, every name of the body is kept, and body order is kept.
C18_LowercaseNamesDistinct ==
    Returned(1, "ParseContent")
    => LET out == parsed.servers IN
       /\ \A i \in 1..Len(out), j \in 1..Len(out) :
            i # j => ToLower(out[i].name) # ToLower(out[j].name)
       /\ \A k \in 1..Len(out) :
            /\ \E i \in 1..Len(BodyURIs) : ToLower(NodeName(BodyURIs, i)) = ToLower(out[k].name)
            /\ out[k].uri = BodyURIs[FirstNamed(ToLower(out[k].name))]
            /\ out[k].name = NodeName(BodyURIs, FirstNamed(ToLower(out[k].name)))
       /\ \A k \in 1..(Len(out) - 1) :
            FirstNamed(ToLower(out[k].name)) < FirstNamed(ToLower(out[k + 1].name))
       /\ Recognised =>
            \A i \in 1..Len(BodyURIs) :
               \E k \in 1..Len(out) : ToLower(out[k].name) = ToLower(NodeName(BodyURIs, i))

\* A body with two URI lines whose names differ in case only was parsed,
\* and the first of them was kept.
C18_Witness ==
    /\ Returned(1, "ParseContent")
    /\ Len(BodyURIs) = 2
    /\ NodeName(BodyURIs, 1) # NodeName(BodyURIs, 2)
    /\ ToLower(NodeName(BodyURIs, 1)) = ToLower(NodeName(BodyURIs, 2))
    /\ Len(parsed.servers) = 1
    /\ parsed.servers[1].uri = BodyURIs[1]

\* C19: the ids of the servers one parse returns are pairwise distinct.
C19_IdsDistinct ==
    Returned(1, "ParseContent")
    => \A i \in 1..Len(parsed.servers), j \in 1..Len(parsed.servers) :
          i # j => parsed.servers[i].id # parsed.servers[j].id

\* The names of the entries of the body's YAML proxies list.
ProxyNames == {body.lines[i].frag : i \in {k \in 1..Len(body.lines) : body.lines[k].kind = "proxy"}}

\* C20: a body without URI lines that is not base64 and is YAML with a
\* proxies list parses to one server per named proxy, each without uri;
\* a body with URI lines parses to the servers of those lines.
C20_YAMLProxiesRecognised ==
    Returned(1, "ParseContent")
    => /\ (/\ body.enc = "plain"
           /\ BodyURIs = <<>>
           /\ ~tryDecodeBase64(body).ok
           /\ ProxyNames # {})
          => (/\ ~parsed.nil
              /\ {parsed.servers[k].name : k \in 1..Len(parsed.servers)} = ProxyNames
              /\ Len(parsed.servers) = Cardinality(ProxyNames)
              /\ \A k \in 1..Len(parsed.servers) : parsed.servers[k].uri = NoURI)
       /\ (BodyURIs # <<>>)
          => (parsed.servers # <<>> /\ \A k \in 1..Len(parsed.servers) : parsed.servers[k].uri.kind = "uri")

\* The builder has been applied to uri.
BuilderReturned == Returned(1, "outboundFromURI")
\* The error messages that are an UnsupportedScheme, a MissingCredential or
\* an InvalidPort.
ListedErrors ==
    {"unsupported scheme",
     "vless: missing uuid", "trojan: missing password",
     "shadowsocks: cannot parse method/password", "vmess: missing add/id/port",
     "invalid port", "missing port in address", "invalid syntax"}
\* A URI that does not parse, a vmess payload that does not decode.
MalformedErrors == {"illegal base64 data", "invalid character", "cannot unmarshal number"}
HasText(m, k) == k \in DOMAIN m /\ m[k] # ""
HasCredential(out) ==
    CASE out.type \in {"vless", "vmess"} -> HasText(out, "uuid")
      [] out.type = "trojan" -> HasText(out, "password")
      [] out.type = "shadowsocks" -> HasText(out, "method") /\ HasText(out, "password")
      [] OTHER -> FALSE

\* C21 as stated: for every URI of the four supported schemes the builder
\* returns an outbound that carries its credential, or one of the errors
\* UnsupportedScheme, MissingCredential, InvalidPort.
C21_OutboundOrListedError ==
    (BuilderReturned /\ uri.scheme \in SupportedSchemes)
    => IF outbound.err = "" THEN HasCredential(outbound.out)
       ELSE outbound.err \in ListedErrors

\* C21, amended: for every URI of the four supported schemes the builder
\* returns an outbound that carries its credential, or an error that is an
\* UnsupportedScheme, a MissingCredential, an InvalidPort, an unsupported
\* transport or a malformed URI or payload; it returns in every case.
C21_OutboundOrError ==
    (BuilderReturned /\ uri.scheme \in SupportedSchemes)
    => /\ outbound # NoOutbound
       /\ IF outbound.err = "" THEN HasCredential(outbound.out)
          ELSE /\ outbound.out = EmptyMap
               /\ outbound.err \in ListedErrors \cup MalformedErrors \cup {"unsupported transport"}
C21_Witness ==
    /\ BuilderReturned
    /\ uri.scheme = "vless"
    /\ uri.query.type = "kcp"
    /\ outbound.err = "unsupported transport"

\* A vless URI whose security is reality has been handed to the builder.
RealityBuilt ==
    /\ BuilderReturned
    /\ uri.scheme = "vless"
    /\ lowerWord(uri.query.security) = "reality"

\* C22: for a vless URI with security=reality, when pbk and sid are both
\* present a returned outbound has tls.reality with that public_key and
\* short_id and tls.utls with fingerprint fp ("chrome" when fp is absent);
\* when either is missing the builder fails.
C22_RealityNeedsKeyAndShortID ==
    RealityBuilt
    => IF uri.query.pbk # "" /\ uri.query.sid # ""
       THEN outbound.err = ""
            => /\ "reality" \in DOMAIN outbound.out.tls
               /\ outbound.out.tls.reality.public_key = uri.query.pbk
               /\ outbound.out.tls.reality.short_id = uri.query.sid
               /\ "utls" \in DOMAIN outbound.out.tls
               /\ outbound.out.tls.utls.fingerprint =
                      (IF uri.query.fp = "" THEN "chrome" ELSE uri.query.fp)
       ELSE outbound.err # ""

\* C23: for a vless URI with security tls or reality and a server host,
\* tls.server_name of the returned outbound is the sni parameter when that
\* is non-empty and the URI's server host otherwise, whatever the other
\* query parameters are.
C23_ServerNameIsSniOrHost ==
    (/\ BuilderReturned
     /\ uri.scheme = "vless"
     /\ lowerWord(uri.query.security) \in {"tls", "reality"}
     /\ uri.host # ""
     /\ outbound.err = "")
    => /\ "server_name" \in DOMAIN outbound.out.tls
       /\ outbound.out.tls.server_name =
              (IF uri.query.sni # "" THEN uri.query.sni ELSE uri.host)

\* A vless URI with security=reality, pbk, sid, fp, sni, type=ws, path and
\* host all given, and no flow or alpn, has been handed to the builder.
FullRealityBuilt ==
    /\ BuilderReturned
    /\ uri.scheme = "vless"
    /\ uri.host # ""
    /\ uri.query.security = "reality"
    /\ uri.query.type = "ws"
    /\ \A k \in {"pbk", "sid", "fp", "sni", "path", "host"} : uri.query[k] # ""
    /\ \A k \in {"flow", "alpn"} : uri.query[k] = ""

SuffixMatches == {i \in 1..Len(release.assets) :
                     HasSuffix(release.assets[i], wantSuffix(release.os))}
IsLegacy(name) == ContainsText(name, <<"legacy">>)

\* C27: asset selection returns an asset whose name ends with the platform
\* suffix; whenever the release has such an asset whose name does not
\* contain "legacy", the selected asset does not contain "legacy"; and
\* among equally preferred candidates the first in manifest order is taken.
C27_PrefersNonLegacy ==
    (Returned(1, "selectAsset") /\ SuffixMatches # {})
    => LET NonLegacy == {i \in SuffixMatches : ~IsLegacy(release.assets[i])} IN
       /\ selected.err = ""
       /\ HasSuffix(selected.name, wantSuffix(release.os))
       /\ NonLegacy # {} => ~IsLegacy(selected.name)
       /\ \E i \in SuffixMatches :
            /\ release.assets[i] = selected.name
            /\ \A j \in SuffixMatches :
                 (j < i) => (IsLegacy(release.assets[j]) # IsLegacy(selected.name))

RECURSIVE Leaves(_, _)
\* Following the segments from the root, some ".." steps above it.
Leaves(segs, depth) ==
    IF segs = <<>> THEN FALSE
    ELSE IF Head(segs) = ".." THEN depth = 0 \/ Leaves(Tail(segs), depth - 1)
    ELSE IF Head(segs) = "." THEN Leaves(Tail(segs), depth)
    ELSE Leaves(Tail(segs), depth + 1)
\* An entry name that is absolute or leaves the extraction root.
Escapes(name) == name.abs \/ Leaves(name.segs, 0)
\* Handler 1 is about to run the loop body for this entry.
Extracting(f) ==
    /\ pc[1] = "i_extract"
    /\ sloc[1].idx <= Len(archive)
    /\ archive[sloc[1].idx] = f

\* C25: every file or directory created during extraction lies strictly
\* under the extraction root; an entry whose path is absolute or leaves the
\* root is rejected with an error and nothing is written for it.
C25_ExtractionStaysUnderRoot ==
    [][/\ \A e \in extractDir' : HasDirPrefix(e.path, ExtractRoot)
       /\ \A f \in Entries :
            (Extracting(f) /\ Escapes(f.name))
            => /\ extractDir' = extractDir
               /\ pc'[1] = "i_cleanup"
               /\ result'[1].kind \in {"absolute path in archive", "path traversal in archive",
                                       "path escapes root"}]_vars
C25_Witness ==
    /\ pc[1] = "i_cleanup"
    /\ result[1] = Err("path traversal in archive")
    /\ extractDir # {}
    /\ Escapes(archive[sloc[1].idx].name)

\* Some entry of the archive is one the extraction rejects.
HasRejectedEntry ==
    \E i \in 1..Len(archive) :
        /\ archive[i].name # Rel(<<>>)
        /\ (Escapes(archive[i].name) \/ Clean(archive[i].name).segs = <<>>)

\* C26: if an entry of the downloaded archive is rejected during
\* extraction, the install returns an error and the install directory and
\* the persisted settings are exactly as they were before the call.
C26_RejectedArchiveChangesNothing ==
    (Returned(1, "InstallSingBox") /\ HasRejectedEntry)
    => /\ result[1] # Ok
       /\ installStatus.err # ""
       /\ installDir = entry[1].installDir
       /\ settingsFile = entry[1].settingsFile
C26_Witness ==
    /\ Returned(1, "InstallSingBox")
    /\ result[1] = Err("path traversal in archive")
    /\ Len(archive) = 2
    /\ archive[1].name = Rel(<<"sing-box.exe">>)
    /\ installDir = entry[1].installDir

\* C28: the saved previous traffic sample is empty whenever status is not
\* Connected, so the first GetTrafficStats call after each transition into
\* Connected (the saved sample, if any, is from an earlier connection)
\* reports download and upload speed 0.
C28_FirstSampleHasNoSpeed ==
    [][/\ (status' # "connected") => (lastTraffic'.at = 0)
       /\ (GetTrafficStats(1) /\ status = "connected" /\ lastTraffic.session # nConfigs)
          => (stats'.download_speed = 0 /\ stats'.upload_speed = 0)]_vars

\* C30: every read and write of status, current_node, the process handle
\* and the last config path happens under the engine mutex: in no
\* reachable state are two handlers about to touch the same field, one of
\* them writing, unless both hold the lock.
C30_FieldsGuardedByMutex ==
    \A t \in Threads : \A u \in Threads \ {t} :
        \A a \in Touches(pc[t]), b \in Touches(pc[u]) :
            (a.field = b.field /\ (a.write \/ b.write)) => (a.locked /\ b.locked)

\* C29: in every store state reached by successful AddSubscription,
\* UpdateSubscriptionServers and UpdateSettings calls, reopening the store
\* from the same data directory yields the subscriptions (same order, same
\* servers) and the settings that were in memory before reopening.
C29_ReopenYieldsMemory ==
    Returned(1, "New") =>
        /\ subscriptions = sloc[1].list
        /\ settings = sloc[1].prev

\* C31: the initial status is Disconnected; status becomes Connected only
\* directly from Connecting; and a Connect that no other call overlaps
\* leaves status Connected when it returns success and Error when it
\* returns an error, so status is not Connecting once it has returned.
C31_StatusLifecycle ==
    /\ status = "disconnected"
    /\ [][(status' = "connected" /\ status # "connected") => status = "connecting"]_vars
    /\ [](\A t \in Threads :
            (Returned(t, "Connect") /\ \A u \in Threads \ {t} : op[u] = "none")
            => IF result[t] = Ok THEN status = "connected" ELSE status = "error")

\* The part of C31 about termination: with one handler, every Connect that
\* was entered returns.
ConnectTerminates ==
    (op[1] = "Connect" /\ InFlight(1)) ~> Returned(1, "Connect")

\* C32: once every AddSubscription and UpdateSubscriptionServers call has
\* returned, subscriptions.json holds the subscription list that is in
\* memory, however the calls overlapped.
C32_FileEqualsMemoryAtRest ==
    AtRest => subsFile = subscriptions

\* C33: whatever AddSubscription calls were made, overlapping within one
\* clock tick or after a reload from disk, the stored subscriptions have
\* pairwise distinct ids, and GetSubscriptions lists them in insertion
\* order: the i-th listed was added when the store held i-1 subscriptions.
C33_DistinctIDsInInsertionOrder ==
    LET listed == GetSubscriptions(subscriptions) IN
    /\ \A i \in 1..Len(listed) : \A j \in 1..Len(listed) :
          i # j => listed[i].id # listed[j].id
    /\ \A i \in 1..Len(listed) : \E now \in Ticks : listed[i].id = NewSubID(now, i - 1)

\* Two AddSubscription calls overlap within one clock tick: both have
\* appended and neither has written the file yet.
C33_Witness ==
    /\ pc[1] = "a_write" /\ pc[2] = "a_write"
    /\ Len(subscriptions) = 2
    /\ subscriptions[1].id[2] = subscriptions[2].id[2]

\* A subscription is added after the store was reloaded from a file that
\* held fewer subscriptions than memory did.
AddedAfterLossyReload ==
    /\ Returned(1, "New")
    /\ Len(sloc[1].list) = 2
    /\ Returned(2, "AddSubscription")
    /\ Len(subscriptions) = 2
    /\ subscriptions[2].id = sloc[1].list[2].id

\* C34: a Connect works on the server record it resolved from the store:
\* once resolved, the record it holds does not change while the call is in
\* flight, whatever UpdateSubscriptionServers does to the store, the config
\* is generated from that record's URI, and that record is the node a
\* successful Connect leaves as current_node.
C34_ConnectUsesResolvedServer ==
    /\ [][(pc[1] \in {"c_write", "c_spawn", "c_gate_enter", "c_gate", "c_gatefail",
                      "c_proxy", "c_finish"} /\ op'[1] = "Connect" /\ pc[1] # pc'[1] /\ pc'[1] # "c_lookup")
          => server'[1] = server[1]]_vars
    /\ [](\A t \in {1} :
            (op[t] = "Connect" /\ cfgPath[t] # 0) => cfg[t] = server[t].uri)
    /\ [](\A t \in {1} :
            (Returned(t, "Connect") /\ result[t] = Ok) => currentNode = server[t])

\* A Connect to "A-h1" has returned success after the subscription's
\* servers were replaced while it was in flight: the store now gives another
\* record for the id than the one the engine holds.
C34_Witness ==
    /\ Returned(1, "Connect") /\ result[1] = Ok
    /\ arg[1] = "A-h1"
    /\ currentNode = ServerA
    /\ cfg[1] = ServerA.uri
    /\ GetServer(subscriptions, "A-h1") # ServerA

Min(a, b) == IF a < b THEN a ELSE b
\* The last n elements of a sequence.
LastN(seq, n) == SubSeq(seq, Len(seq) - n + 1, Len(seq))

\* C35: after any Add calls on a log buffer of capacity max >= 1, from any
\* writers, the buffer holds at most max lines; a snapshot returns the most
\* recently added min(n, max) lines in the order they were added; and a
\* snapshot already returned still holds the lines that were the most recent
\* when it was taken, whatever was added since.
C35_BoundedFIFO ==
    /\ Len(logData) <= logMax
    /\ logData = LastN(logAdded, Min(Len(logAdded), logMax))
    /\ logSnap.taken =>
          logSnap.lines = LastN(SubSeq(logAdded, 1, logSnap.at), Min(logSnap.at, logMax))

\* Both writers have added lines past the capacity, and lines were added
\* after the last snapshot was taken of a full buffer.
C35_Witness ==
    /\ logMax = 2
    /\ Len(logAdded) = 4
    /\ \A w \in Threads : \E i \in 1..Len(logAdded) : logAdded[i].writer = w
    /\ logSnap.taken /\ logSnap.at = 3
    /\ logSnap.lines # logData

\* Every child that is gone has had its waiting goroutine run.
SupQuiet == \A c \in 1..Len(supProcs) : supProcs[c].state # "running" => supProcs[c].reaped

\* C40: in the standalone supervisor, whenever the goroutines waiting for
\* children that are gone have run, running is true exactly when the most
\* recently started child has neither exited nor been stopped; and the exit
\* of an earlier child that Start replaced neither clears the flag nor sets
\* last_error.
C40_RunningIffLatestChildAlive ==
    /\ [](SupQuiet =>
            (sup.running <=> (supProcs # <<>> /\ supProcs[Len(supProcs)].state = "running")))
    /\ [][\A c \in 1..Len(supProcs) :
            (c < Len(supProcs) /\ ~supProcs[c].reaped /\ supProcs'[c].reaped) => sup' = sup]_vars

\* The port text of a URI: after the ":" of the authority, or the "port"
\* of a vmess payload.
PortText(u) == IF u.scheme = "vmess" THEN u.payload.port ELSE AfterColon(u.port)
\* The scheme's default port (vmess has none).
DefaultPort(scheme) == IF scheme = "ss" THEN 8388 ELSE 443

\* C36: for every URI the builder accepts, server_port is within 1..65535:
\* the explicit port when the URI gives one and the scheme's default when
\* it gives none; a port text that is a number outside 1..65535 is rejected.
C36_ServerPortInRange ==
    (BuilderReturned /\ uri.scheme \in {"vless", "trojan", "ss", "vmess"}) =>
        LET given == Atoi(PortText(uri)) IN
        /\ (outbound.err = "") =>
              /\ outbound.out.server_port \in 1..65535
              /\ (given >= 0) => outbound.out.server_port = given
              /\ (uri.scheme # "vmess" /\ uri.port = "") =>
                    outbound.out.server_port = DefaultPort(uri.scheme)
        /\ (given >= 0 /\ given \notin 1..65535) => outbound.err # ""

\* C37: when AddSubscription, UpdateSubscriptionServers or UpdateSettings
\* returns the error of a failed disk write, the subscriptions and settings
\* in memory are those the store held when the call was entered.
C37_FailedWriteLeavesMemory ==
    \A t \in {1} :
        (/\ pc[t] = "done"
         /\ op[t] \in StoreWrites
         /\ result[t] = Err("write_error"))
        => (subscriptions = entry[t].subscriptions /\ settings = entry[t].settings)

\* C38: the readiness gate of a Connect passes only while the child that this
\* Connect spawned is alive and is the process listening on the proxy port; a
\* listener that belongs to another process does not let the gate pass.
C38_GatePassesOnOwnChild ==
    [][\A t \in Threads :
          (pc[t] = "c_gate" /\ pc'[t] = "c_proxy")
          => (/\ spawned[t] \in Pids
              /\ children[spawned[t]].state = "listening")]_vars

\* The same for the weaker reading: the spawned child is at least alive.
GatePassesWithLiveChild ==
    [][\A t \in Threads :
          (pc[t] = "c_gate" /\ pc'[t] = "c_proxy")
          => (spawned[t] \in Pids /\ Alive(spawned[t]))]_vars

\* C39: a refresh that fails because the subscription id is unknown or the
\* fetch failed, made alone or as one iteration of RefreshAllSubscriptions,
\* leaves the subscriptions in memory and in subscriptions.json, and with them
\* every server list, exactly as they were.
FailedRefresh == {"subscription not found", "fetch"}

RefreshFailsHere(t) ==
    \/ /\ pc[t] \in {"idle", "done"}
       /\ pc'[t] = "done"
       /\ op'[t] = "RefreshSubscription"
       /\ result'[t].kind \in FailedRefresh
    \/ /\ pc[t] = "r_loop"
       /\ Len(sloc'[t].results) = Len(sloc[t].results) + 1
       /\ sloc'[t].results[Len(sloc'[t].results)].status \in FailedRefresh

C39_FailedRefreshChangesNothing ==
    [][\A t \in {1} :
          RefreshFailsHere(t) => (subscriptions' = subscriptions /\ subsFile' = subsFile)]_vars

\* A single refresh failed on its fetch while the one subscription held
\* servers that are also in the file.
C39_Witness ==
    /\ Returned(1, "RefreshSubscription")
    /\ result[1].kind = "fetch"
    /\ Len(subscriptions) = 1
    /\ remote[subscriptions[1].url] = FetchError
    /\ Len(subscriptions[1].servers) > 0
    /\ Len(subsFile) = 1
    /\ Len(subsFile[1].servers) > 0

\* A single refresh of an id that was never issued, over a store that holds
\* servers.
UnknownRefreshSeen ==
    /\ Returned(1, "RefreshSubscription")
    /\ result[1].kind = "subscription not found"
    /\ Len(subscriptions) > 0
    /\ Len(subscriptions[1].servers) > 0

====
